---------------------------- MODULE Spec2Model ----------------------------
(***************************************************************************)
(* Two-phase (Kociemba) Rubik's cube solver: the cubie model               *)
(* (solver/cube_model.py), the coordinates (solver/coord.py), the move and *)
(* pruning tables (solver/move_tables.py, solver/pruning_tables.py), the   *)
(* IDA* search (solver/search.py) and the facade (solver/solver.py).       *)
(*                                                                         *)
(* Python lists are modelled as functions over 0..n-1, so that every index *)
(* of the source is the same index here.                                   *)
(***************************************************************************)
EXTENDS Integers, Sequences, FiniteSets, TLC

\* ------------------------------------------------------------------------
\* Bounds of the model
\* ------------------------------------------------------------------------
\* Longest scramble applied to the identity before solve is called.
ScrambleLen == 2
\* Largest max_length passed to solve (every value 0..MaxLength is tried).
MaxLength == 3
\* Largest value of the wall clock (time.time(), in whole ticks).
MaxTime == 1

\* A Python list given as a tuple, as the function over 0..n-1.
List(s) == [i \in 0..(Len(s) - 1) |-> s[i + 1]]

\* range(n)
Range(n) == [i \in 0..(n - 1) |-> i]

\* [v] * n
Repeat(v, n) == [i \in 0..(n - 1) |-> v]

\* len(l)
PyLen(l) == Cardinality(DOMAIN l)

\* sum(l)
RECURSIVE SumUpTo(_, _)
SumUpTo(l, n) == IF n = 0 THEN 0 ELSE l[n - 1] + SumUpTo(l, n - 1)

Sum(l) == SumUpTo(l, PyLen(l))

\* ------------------------------------------------------------------------
\* cube_model.py: positions
\* ------------------------------------------------------------------------
URF == 0
UFL == 1
ULB == 2
UBR == 3
DFR == 4
DLF == 5
DBL == 6
DRB == 7

UR == 0
UF == 1
UL == 2
UB == 3
DR == 4
DF == 5
DL == 6
DB == 7
FR == 8
FL == 9
BL == 10
BR == 11

\* ------------------------------------------------------------------------
\* cube_model.py: class CubieCube
\* ------------------------------------------------------------------------
\* CubieCube(cp, co, ep, eo)
CubieCube(cp, co, ep, eo) == [cp |-> cp, co |-> co, ep |-> ep, eo |-> eo]

\* CubieCube(): the identity
Identity == CubieCube(Range(8), Repeat(0, 8), Range(12), Repeat(0, 12))

\* CubieCube.copy
copy(c) == CubieCube(c.cp, c.co, c.ep, c.eo)

\* CubieCube.multiply: self * other (apply self first, then other)
multiply(self, other) ==
    [cp |-> [i \in 0..7 |-> self.cp[other.cp[i]]],
     co |-> [i \in 0..7 |-> (self.co[other.cp[i]] + other.co[i]) % 3],
     ep |-> [i \in 0..11 |-> self.ep[other.ep[i]]],
     eo |-> [i \in 0..11 |-> (self.eo[other.ep[i]] + other.eo[i]) % 2]]

\* A plausible slip in apply_move: the move's orientation is read at the
\* source position instead of the destination position.
apply_move_wrong_index(self, move_cube) ==
    [cp |-> [i \in 0..7 |-> self.cp[move_cube.cp[i]]],
     co |-> [i \in 0..7 |-> (self.co[move_cube.cp[i]] + move_cube.co[move_cube.cp[i]]) % 3],
     ep |-> [i \in 0..11 |-> self.ep[move_cube.ep[i]]],
     eo |-> [i \in 0..11 |-> (self.eo[move_cube.ep[i]] + move_cube.eo[move_cube.ep[i]]) % 2]]

\* CubieCube.apply_move: the new value of the cube it is called on
apply_move(self, move_cube) ==
    [cp |-> [i \in 0..7 |-> self.cp[move_cube.cp[i]]],
     co |-> [i \in 0..7 |-> (self.co[move_cube.cp[i]] + move_cube.co[i]) % 3],
     ep |-> [i \in 0..11 |-> self.ep[move_cube.ep[i]]],
     eo |-> [i \in 0..11 |-> (self.eo[move_cube.ep[i]] + move_cube.eo[i]) % 2]]

\* A slip in is_solved: the edge permutation is compared with range(8)
is_solved_short_range(c) ==
    /\ c.cp = Range(8)
    /\ c.co = Repeat(0, 8)
    /\ c.ep = Range(8)
    /\ c.eo = Repeat(0, 12)

\* CubieCube.is_solved
is_solved(c) ==
    /\ c.cp = Range(8)
    /\ c.co = Repeat(0, 8)
    /\ c.ep = Range(12)
    /\ c.eo = Repeat(0, 12)

\* max(S)
Greatest(S) == CHOOSE x \in S : \A y \in S : y <= x

\* A slip in inverse: the corner orientation is copied, not negated
inverse_without_negation(self) ==
    [cp |-> [p \in 0..7 |->
                LET hits == {i \in 0..7 : self.cp[i] = p}
                IN  IF hits = {} THEN p ELSE Greatest(hits)],
     co |-> [p \in 0..7 |->
                LET hits == {i \in 0..7 : self.cp[i] = p}
                IN  IF hits = {} THEN 0 ELSE self.co[Greatest(hits)]],
     ep |-> [p \in 0..11 |->
                LET hits == {i \in 0..11 : self.ep[i] = p}
                IN  IF hits = {} THEN p ELSE Greatest(hits)],
     eo |-> [p \in 0..11 |->
                LET hits == {i \in 0..11 : self.ep[i] = p}
                IN  IF hits = {} THEN 0 ELSE self.eo[Greatest(hits)]]]

\* CubieCube.inverse: inv starts as the identity; the loops write
\* inv.cp[self.cp[i]] = i and inv.co[self.cp[i]] = (3 - self.co[i]) % 3 for
\* i in range(8), and the same for the edges without the negation; the last
\* write to a position stays, a position never written keeps the identity's
\* value
inverse(self) ==
    [cp |-> [p \in 0..7 |->
                LET hits == {i \in 0..7 : self.cp[i] = p}
                IN  IF hits = {} THEN p ELSE Greatest(hits)],
     co |-> [p \in 0..7 |->
                LET hits == {i \in 0..7 : self.cp[i] = p}
                IN  IF hits = {} THEN 0 ELSE (3 - self.co[Greatest(hits)]) % 3],
     ep |-> [p \in 0..11 |->
                LET hits == {i \in 0..11 : self.ep[i] = p}
                IN  IF hits = {} THEN p ELSE Greatest(hits)],
     eo |-> [p \in 0..11 |->
                LET hits == {i \in 0..11 : self.ep[i] = p}
                IN  IF hits = {} THEN 0 ELSE self.eo[Greatest(hits)]]]

\* _perm_parity: the walk along the cycle that starts at i, from j on;
\* returns the cycle's length and the positions it visited.
RECURSIVE CycleWalk(_, _, _, _, _)
CycleWalk(perm, i, j, cycle_len, visited) ==
    IF j = i THEN [len |-> cycle_len, visited |-> visited]
    ELSE CycleWalk(perm, i, perm[j], cycle_len + 1, visited \cup {j})

\* _perm_parity: the loop over i in range(n), from i on
RECURSIVE ParityFrom(_, _, _, _)
ParityFrom(perm, i, visited, parity) ==
    IF i = PyLen(perm) THEN parity
    ELSE IF i \in visited THEN ParityFrom(perm, i + 1, visited, parity)
    ELSE LET w == CycleWalk(perm, i, perm[i], 1, visited \cup {i})
         IN  ParityFrom(perm, i + 1, w.visited,
                        IF w.len % 2 = 0 THEN 1 - parity ELSE parity)

\* _perm_parity: 0 for an even permutation, 1 for an odd one
perm_parity(perm) == ParityFrom(perm, 0, {}, 0)

\* sorted(l) != list(range(n))
NotAPermutation(l, n) ==
    \/ PyLen(l) # n
    \/ \E v \in 0..(n - 1) : Cardinality({i \in DOMAIN l : l[i] = v}) # 1

\* A slip in validate: the parity check is left out
validate_without_parity(c) ==
    IF NotAPermutation(c.cp, 8) THEN "Invalid corner permutation"
    ELSE IF NotAPermutation(c.ep, 12) THEN "Invalid edge permutation"
    ELSE IF Sum(c.co) % 3 # 0 THEN "Corner orientation sum must be divisible by 3"
    ELSE IF Sum(c.eo) % 2 # 0 THEN "Edge orientation sum must be divisible by 2"
    ELSE "None"

\* A slip in validate: the corner orientation sum is taken mod 2
validate_corner_sum_mod_two(c) ==
    IF NotAPermutation(c.cp, 8) THEN "Invalid corner permutation"
    ELSE IF NotAPermutation(c.ep, 12) THEN "Invalid edge permutation"
    ELSE IF Sum(c.co) % 2 # 0 THEN "Corner orientation sum must be divisible by 3"
    ELSE IF Sum(c.eo) % 2 # 0 THEN "Edge orientation sum must be divisible by 2"
    ELSE IF perm_parity(c.cp) # perm_parity(c.ep)
         THEN "Corner and edge permutation parities must match"
    ELSE "None"

\* A slip in validate: the edge permutation is checked before the corners
validate_edges_first(c) ==
    IF NotAPermutation(c.ep, 12) THEN "Invalid edge permutation"
    ELSE IF NotAPermutation(c.cp, 8) THEN "Invalid corner permutation"
    ELSE IF Sum(c.co) % 3 # 0 THEN "Corner orientation sum must be divisible by 3"
    ELSE IF Sum(c.eo) % 2 # 0 THEN "Edge orientation sum must be divisible by 2"
    ELSE IF perm_parity(c.cp) # perm_parity(c.ep)
         THEN "Corner and edge permutation parities must match"
    ELSE "None"

\* CubieCube.validate: the error message, or "None"
validate(c) ==
    IF NotAPermutation(c.cp, 8) THEN "Invalid corner permutation"
    ELSE IF NotAPermutation(c.ep, 12) THEN "Invalid edge permutation"
    ELSE IF Sum(c.co) % 3 # 0 THEN "Corner orientation sum must be divisible by 3"
    ELSE IF Sum(c.eo) % 2 # 0 THEN "Edge orientation sum must be divisible by 2"
    ELSE IF perm_parity(c.cp) # perm_parity(c.ep)
         THEN "Corner and edge permutation parities must match"
    ELSE "None"

\* ------------------------------------------------------------------------
\* cube_model.py: facelet mapping
\* ------------------------------------------------------------------------
U_FACE == 0
R_FACE == 1
F_FACE == 2
D_FACE == 3
L_FACE == 4
B_FACE == 5

CORNER_NAMES == List(<<"URF", "UFL", "ULB", "UBR", "DFR", "DLF", "DBL", "DRB">>)

EDGE_NAMES ==
    List(<<"UR", "UF", "UL", "UB", "DR", "DF", "DL", "DB", "FR", "FL", "BL", "BR">>)

\* COLOR_CHARS = "URFDLB"; a string is the list of its characters
COLOR_CHARS == List(<<"U", "R", "F", "D", "L", "B">>)

CORNER_FACELETS == List(<<
    List(<<U_FACE * 9 + 8, R_FACE * 9 + 0, F_FACE * 9 + 2>>),
    List(<<U_FACE * 9 + 6, F_FACE * 9 + 0, L_FACE * 9 + 2>>),
    List(<<U_FACE * 9 + 0, L_FACE * 9 + 0, B_FACE * 9 + 2>>),
    List(<<U_FACE * 9 + 2, B_FACE * 9 + 0, R_FACE * 9 + 2>>),
    List(<<D_FACE * 9 + 2, F_FACE * 9 + 8, R_FACE * 9 + 6>>),
    List(<<D_FACE * 9 + 0, L_FACE * 9 + 8, F_FACE * 9 + 6>>),
    List(<<D_FACE * 9 + 6, B_FACE * 9 + 8, L_FACE * 9 + 6>>),
    List(<<D_FACE * 9 + 8, R_FACE * 9 + 8, B_FACE * 9 + 6>>) >>)

EDGE_FACELETS == List(<<
    List(<<U_FACE * 9 + 5, R_FACE * 9 + 1>>),
    List(<<U_FACE * 9 + 7, F_FACE * 9 + 1>>),
    List(<<U_FACE * 9 + 3, L_FACE * 9 + 1>>),
    List(<<U_FACE * 9 + 1, B_FACE * 9 + 1>>),
    List(<<D_FACE * 9 + 5, R_FACE * 9 + 7>>),
    List(<<D_FACE * 9 + 7, F_FACE * 9 + 7>>),
    List(<<D_FACE * 9 + 3, L_FACE * 9 + 7>>),
    List(<<D_FACE * 9 + 1, B_FACE * 9 + 7>>),
    List(<<F_FACE * 9 + 5, R_FACE * 9 + 3>>),
    List(<<F_FACE * 9 + 3, L_FACE * 9 + 5>>),
    List(<<B_FACE * 9 + 5, L_FACE * 9 + 3>>),
    List(<<B_FACE * 9 + 3, R_FACE * 9 + 5>>) >>)

CORNER_COLORS == List(<<
    List(<<U_FACE, R_FACE, F_FACE>>),
    List(<<U_FACE, F_FACE, L_FACE>>),
    List(<<U_FACE, L_FACE, B_FACE>>),
    List(<<U_FACE, B_FACE, R_FACE>>),
    List(<<D_FACE, F_FACE, R_FACE>>),
    List(<<D_FACE, L_FACE, F_FACE>>),
    List(<<D_FACE, B_FACE, L_FACE>>),
    List(<<D_FACE, R_FACE, B_FACE>>) >>)

EDGE_COLORS == List(<<
    List(<<U_FACE, R_FACE>>),
    List(<<U_FACE, F_FACE>>),
    List(<<U_FACE, L_FACE>>),
    List(<<U_FACE, B_FACE>>),
    List(<<D_FACE, R_FACE>>),
    List(<<D_FACE, F_FACE>>),
    List(<<D_FACE, L_FACE>>),
    List(<<D_FACE, B_FACE>>),
    List(<<F_FACE, R_FACE>>),
    List(<<F_FACE, L_FACE>>),
    List(<<B_FACE, L_FACE>>),
    List(<<B_FACE, R_FACE>>) >>)

\* A slip in to_facelet_string: the corner orientation is added, not
\* subtracted, in the index of the facelet written
RECURSIVE CornerWrites_twisted_forward(_, _, _)
CornerWrites_twisted_forward(c, facelets, n) ==
    IF n = 24 THEN facelets
    ELSE LET i     == n \div 3
             k     == n % 3
             cubie == c.cp[i]
             ori   == c.co[i]
             facelet_idx == CORNER_FACELETS[i][(k + ori) % 3]
         IN  CornerWrites_twisted_forward(
                 c, [facelets EXCEPT ![facelet_idx] = CORNER_COLORS[cubie][k]], n + 1)

\* to_facelet_string: the corner loop, n = 3 * i + k, from n on
RECURSIVE CornerWrites(_, _, _)
CornerWrites(c, facelets, n) ==
    IF n = 24 THEN facelets
    ELSE LET i     == n \div 3
             k     == n % 3
             cubie == c.cp[i]
             ori   == c.co[i]
             facelet_idx == CORNER_FACELETS[i][(k + 3 - ori) % 3]
         IN  CornerWrites(c, [facelets EXCEPT ![facelet_idx] = CORNER_COLORS[cubie][k]],
                          n + 1)

\* to_facelet_string: the edge loop, n = 2 * i + k, from n on
RECURSIVE EdgeWrites(_, _, _)
EdgeWrites(c, facelets, n) ==
    IF n = 24 THEN facelets
    ELSE LET i     == n \div 2
             k     == n % 2
             cubie == c.ep[i]
             ori   == c.eo[i]
             facelet_idx == EDGE_FACELETS[i][(k + ori) % 2]
         IN  EdgeWrites(c, [facelets EXCEPT ![facelet_idx] = EDGE_COLORS[cubie][k]],
                        n + 1)

\* CubieCube.to_facelet_string
to_facelet_string(c) ==
    LET centers  == [x \in 0..53 |-> IF x % 9 = 4 THEN x \div 9 ELSE 0]
        facelets == EdgeWrites(c, CornerWrites(c, centers, 0), 0)
    IN  [x \in 0..53 |-> COLOR_CHARS[facelets[x]]]

\* color_map = {c: i for i, c in enumerate(COLOR_CHARS)}
color_map(ch) == CHOOSE i \in 0..5 : COLOR_CHARS[i] = ch

\* from_facelet_string: the search "for j in range(8): for ori in range(3)"
\* for the corner at position i; the matches in the order the loops try them
CornerMatches(facelets, i) ==
    LET c0 == facelets[CORNER_FACELETS[i][0]]
        c1 == facelets[CORNER_FACELETS[i][1]]
        c2 == facelets[CORNER_FACELETS[i][2]]
    IN  {n \in 0..23 :
            LET tc  == CORNER_COLORS[n \div 3]
                ori == n % 3
            IN  /\ c0 = tc[(0 + ori) % 3]
                /\ c1 = tc[(1 + ori) % 3]
                /\ c2 = tc[(2 + ori) % 3]}

\* from_facelet_string: the search "for j in range(12)" for the edge at
\* position i; n = 2 * j + eo, in the order the loop tries them
EdgeMatches(facelets, i) ==
    LET c0 == facelets[EDGE_FACELETS[i][0]]
        c1 == facelets[EDGE_FACELETS[i][1]]
    IN  {n \in 0..23 :
            LET te == EDGE_COLORS[n \div 2]
            IN  IF n % 2 = 0 THEN c0 = te[0] /\ c1 = te[1]
                ELSE c0 = te[1] /\ c1 = te[0]}

Least(S) == CHOOSE x \in S : \A y \in S : x <= y

\* CubieCube.from_facelet_string: [ok |-> TRUE, cube |-> the cube], or
\* [ok |-> FALSE, error |-> the ValueError's message, in its parts]
from_facelet_string(s) ==
    IF PyLen(s) # 54
    THEN [ok |-> FALSE, error |-> <<"Facelet string must be 54 characters, got", PyLen(s)>>]
    ELSE LET bad == {x \in 0..53 : \A i \in 0..5 : COLOR_CHARS[i] # s[x]}
         IN  IF bad # {}
             THEN [ok |-> FALSE, error |-> <<"Invalid character in facelet string", s[Least(bad)]>>]
             ELSE LET facelets == [x \in 0..53 |-> color_map(s[x])]
                      cm   == [i \in 0..7 |-> CornerMatches(facelets, i)]
                      em   == [i \in 0..11 |-> EdgeMatches(facelets, i)]
                      badc == {i \in 0..7 : cm[i] = {}}
                      bade == {i \in 0..11 : em[i] = {}}
                  IN  IF badc # {}
                      THEN [ok |-> FALSE,
                            error |-> <<"Invalid corner at position", CORNER_NAMES[Least(badc)]>>]
                      ELSE IF bade # {}
                      THEN [ok |-> FALSE,
                            error |-> <<"Invalid edge at position", EDGE_NAMES[Least(bade)]>>]
                      ELSE [ok |-> TRUE,
                            cube |-> CubieCube(
                                [i \in 0..7 |-> Least(cm[i]) \div 3],
                                [i \in 0..7 |-> Least(cm[i]) % 3],
                                [i \in 0..11 |-> Least(em[i]) \div 2],
                                [i \in 0..11 |-> Least(em[i]) % 2])]

\* ------------------------------------------------------------------------
\* cube_model.py: the six basic moves and the 18 move cubes
\* ------------------------------------------------------------------------
\* A slip in _move_L: the corners cycle the other way round
move_L_corners_reversed == CubieCube(
    List(<<URF, DLF, UFL, UBR, DFR, DBL, ULB, DRB>>),
    List(<<0, 1, 2, 0, 0, 2, 1, 0>>),
    List(<<UR, UF, BL, UB, DR, DF, FL, DB, FR, UL, DL, BR>>),
    List(<<0, 0, 0, 0, 0, 0, 0, 0, 0, 0, 0, 0>>))

\* A slip in _move_D: the edges cycle the other way round
move_D_edges_reversed == CubieCube(
    List(<<URF, UFL, ULB, UBR, DLF, DBL, DRB, DFR>>),
    List(<<0, 0, 0, 0, 0, 0, 0, 0>>),
    List(<<UR, UF, UL, UB, DB, DR, DF, DL, FR, FL, BL, BR>>),
    List(<<0, 0, 0, 0, 0, 0, 0, 0, 0, 0, 0, 0>>))

\* A slip in _move_F: the edges are moved without being flipped
move_F_without_flips == CubieCube(
    List(<<UFL, DLF, ULB, UBR, URF, DFR, DBL, DRB>>),
    List(<<1, 2, 0, 0, 2, 1, 0, 0>>),
    List(<<UR, FL, UL, UB, DR, FR, DL, DB, UF, DF, BL, BR>>),
    List(<<0, 0, 0, 0, 0, 0, 0, 0, 0, 0, 0, 0>>))

move_U == CubieCube(
    List(<<UBR, URF, UFL, ULB, DFR, DLF, DBL, DRB>>),
    List(<<0, 0, 0, 0, 0, 0, 0, 0>>),
    List(<<UB, UR, UF, UL, DR, DF, DL, DB, FR, FL, BL, BR>>),
    List(<<0, 0, 0, 0, 0, 0, 0, 0, 0, 0, 0, 0>>))

move_R == CubieCube(
    List(<<DFR, UFL, ULB, URF, DRB, DLF, DBL, UBR>>),
    List(<<2, 0, 0, 1, 1, 0, 0, 2>>),
    List(<<FR, UF, UL, UB, BR, DF, DL, DB, DR, FL, BL, UR>>),
    List(<<0, 0, 0, 0, 0, 0, 0, 0, 0, 0, 0, 0>>))

move_F == CubieCube(
    List(<<UFL, DLF, ULB, UBR, URF, DFR, DBL, DRB>>),
    List(<<1, 2, 0, 0, 2, 1, 0, 0>>),
    List(<<UR, FL, UL, UB, DR, FR, DL, DB, UF, DF, BL, BR>>),
    List(<<0, 1, 0, 0, 0, 1, 0, 0, 1, 1, 0, 0>>))

move_D == CubieCube(
    List(<<URF, UFL, ULB, UBR, DLF, DBL, DRB, DFR>>),
    List(<<0, 0, 0, 0, 0, 0, 0, 0>>),
    List(<<UR, UF, UL, UB, DF, DL, DB, DR, FR, FL, BL, BR>>),
    List(<<0, 0, 0, 0, 0, 0, 0, 0, 0, 0, 0, 0>>))

move_L == CubieCube(
    List(<<URF, ULB, DBL, UBR, DFR, UFL, DLF, DRB>>),
    List(<<0, 1, 2, 0, 0, 2, 1, 0>>),
    List(<<UR, UF, BL, UB, DR, DF, FL, DB, FR, UL, DL, BR>>),
    List(<<0, 0, 0, 0, 0, 0, 0, 0, 0, 0, 0, 0>>))

move_B == CubieCube(
    List(<<URF, UFL, UBR, DRB, DFR, DLF, ULB, DBL>>),
    List(<<0, 0, 1, 2, 0, 0, 2, 1>>),
    List(<<UR, UF, UL, BR, DR, DF, DL, BL, FR, FL, UB, DB>>),
    List(<<0, 0, 0, 1, 0, 0, 0, 1, 0, 0, 1, 1>>))

BASIC_MOVES == List(<<move_U, move_R, move_F, move_D, move_L, move_B>>)

\* A slip in the construction of the move cubes: the third cube of a face is
\* the square of its half turn
MOVE_CUBES_square_of_half_turn ==
    [i \in 0..17 |->
        LET m  == BASIC_MOVES[i \div 3]
            m2 == multiply(m, m)
            m3 == multiply(m2, m2)
        IN  CASE i % 3 = 0 -> m
              [] i % 3 = 1 -> m2
              [] OTHER     -> m3]

\* for m in BASIC_MOVES: append m, m2 = m.multiply(m), m3 = m2.multiply(m)
MOVE_CUBES ==
    [i \in 0..17 |->
        LET m  == BASIC_MOVES[i \div 3]
            m2 == multiply(m, m)
            m3 == multiply(m2, m)
        IN  CASE i % 3 = 0 -> m
              [] i % 3 = 1 -> m2
              [] OTHER     -> m3]

\* for face in "U","R","F","D","L","B": append face, face + "2", face + "'"
MOVE_NAMES ==
    [i \in 0..17 |->
        LET face == List(<<"U", "R", "F", "D", "L", "B">>)[i \div 3]
        IN  CASE i % 3 = 0 -> face
              [] i % 3 = 1 -> face \o "2"
              [] OTHER     -> face \o "'"]

\* PHASE2_MOVES with the quarter turn R in the place of R2
PHASE2_MOVES_with_quarter_turn == List(<<0, 1, 2, 9, 10, 11, 3, 13, 7, 16>>)

PHASE2_MOVES == List(<<0, 1, 2, 9, 10, 11, 4, 13, 7, 16>>)

\* ------------------------------------------------------------------------
\* coord.py: combinatorial helpers
\* ------------------------------------------------------------------------
\* _cnk: the loop "for i in range(k): result = result * (n - i) // (i + 1)"
RECURSIVE CnkLoop(_, _, _, _)
CnkLoop(n, k, i, result) ==
    IF i = k THEN result
    ELSE CnkLoop(n, k, i + 1, (result * (n - i)) \div (i + 1))

\* _cnk: binomial coefficient C(n, k)
cnk(n, k) ==
    IF k < 0 \/ k > n THEN 0
    ELSE IF k = 0 \/ k = n THEN 1
    ELSE CnkLoop(n, IF k < n - k THEN k ELSE n - k, 0, 1)

\* _FACTORIAL[n], built as _FACTORIAL[-1] * _i
RECURSIVE FACTORIAL(_)
FACTORIAL(n) == IF n = 0 THEN 1 ELSE FACTORIAL(n - 1) * n

\* _perm_to_index: the loop over i, with p the working copy of perm
RECURSIVE PermToIndexLoop(_, _, _)
PermToIndexLoop(p, i, index) ==
    LET n == PyLen(p)
    IN  IF i = n THEN index
        ELSE PermToIndexLoop(
                 [j \in 0..(n - 1) |-> IF j > i /\ p[j] > p[i] THEN p[j] - 1 ELSE p[j]],
                 i + 1,
                 index + p[i] * FACTORIAL(n - 1 - i))

\* _perm_to_index: Lehmer code index of a permutation
perm_to_index(perm) == PermToIndexLoop(perm, 0, 0)

\* elements.remove(v): the list without its first occurrence of v
ListRemove(l, v) ==
    LET n == PyLen(l)
        k == CHOOSE j \in 0..(n - 1) : l[j] = v /\ \A h \in 0..(j - 1) : l[h] # v
    IN  [j \in 0..(n - 2) |-> IF j < k THEN l[j] ELSE l[j + 1]]

\* _index_to_perm: the loop over i; perm holds the entries set so far
RECURSIVE IndexToPermLoop(_, _, _, _, _)
IndexToPermLoop(index, n, i, elements, perm) ==
    IF i = n THEN perm
    ELSE LET fact == FACTORIAL(n - 1 - i)
             e    == elements[index \div fact]
         IN  IndexToPermLoop(index % fact, n, i + 1, ListRemove(elements, e),
                             [perm EXCEPT ![i] = e])

\* _index_to_perm: the permutation of n elements with Lehmer code index
index_to_perm(index, n) == IndexToPermLoop(index, n, 0, Range(n), Repeat(0, n))

\* ------------------------------------------------------------------------
\* coord.py: phase 1 coordinates
\* ------------------------------------------------------------------------
N_TWIST == 2187
N_FLIP == 2048
N_UDSLICE == 495

\* "for i in range(n): acc = acc * base + digits[i]", from i on
RECURSIVE DigitsToInt(_, _, _, _, _)
DigitsToInt(digits, n, base, i, acc) ==
    IF i = n THEN acc
    ELSE DigitsToInt(digits, n, base, i + 1, acc * base + digits[i])

get_twist(c) == DigitsToInt(c.co, 7, 3, 0, 0)

\* set_twist / set_flip: the loop "for i in range(last, -1, -1)", which
\* writes digit i and adds it to parity; returns the digits and the parity
RECURSIVE SetDigits(_, _, _, _, _)
SetDigits(digits, base, i, value, parity) ==
    IF i < 0 THEN [digits |-> digits, parity |-> parity]
    ELSE SetDigits([digits EXCEPT ![i] = value % base], base, i - 1,
                   value \div base, parity + (value % base))

\* set_twist: the cube with its corner orientation set from twist
set_twist(c, twist) ==
    LET r == SetDigits(c.co, 3, 6, twist, 0)
    IN  [c EXCEPT !.co = [r.digits EXCEPT ![7] = (3 - (r.parity % 3)) % 3]]

twist_to_cube(twist) == set_twist(Identity, twist)

get_flip(c) == DigitsToInt(c.eo, 11, 2, 0, 0)

\* set_flip: the cube with its edge orientation set from flip
set_flip(c, flip) ==
    LET r == SetDigits(c.eo, 2, 10, flip, 0)
    IN  [c EXCEPT !.eo = [r.digits EXCEPT ![11] = (2 - (r.parity % 2)) % 2]]

flip_to_cube(flip) == set_flip(Identity, flip)

\* get_udslice: occ, the positions that hold a UD-slice edge, ascending:
\* the k-th of them (k from 0)
Occ(c, k) ==
    CHOOSE i \in 0..11 :
        /\ c.ep[i] >= 8
        /\ Cardinality({j \in 0..(i - 1) : c.ep[j] >= 8}) = k

\* get_udslice without the reversal "N_UDSLICE - 1 - raw"
get_udslice_raw(c) ==
    cnk(Occ(c, 0), 1) + cnk(Occ(c, 1), 2) + cnk(Occ(c, 2), 3) + cnk(Occ(c, 3), 4)

\* get_udslice: 0 when the UD-slice edges are at positions 8..11
get_udslice(c) ==
    (N_UDSLICE - 1) - (cnk(Occ(c, 0), 1) + cnk(Occ(c, 1), 2)
                       + cnk(Occ(c, 2), 3) + cnk(Occ(c, 3), 4))

\* set_udslice: the decoding loop "for i in range(11, -1, -1)"; returns the
\* set of occupied positions
RECURSIVE UdsliceDecode(_, _, _, _)
UdsliceDecode(i, raw, k, occupied) ==
    IF i < 0 THEN occupied
    ELSE LET c == cnk(i, k + 1)
         IN  IF raw >= c
             THEN UdsliceDecode(i - 1, raw - c, k - 1, occupied \cup {i})
             ELSE UdsliceDecode(i - 1, raw, k, occupied)

\* set_udslice: UD-slice edges 8.. in the occupied positions, the other
\* edges 0.. in the remaining ones, left to right
set_udslice(c, index) ==
    LET occupied == UdsliceDecode(11, (N_UDSLICE - 1) - index, 3, {})
    IN  [c EXCEPT !.ep =
            [i \in 0..11 |->
                IF i \in occupied
                THEN 8 + Cardinality({j \in 0..(i - 1) : j \in occupied})
                ELSE Cardinality({j \in 0..(i - 1) : j \notin occupied})]]

udslice_to_cube(index) == set_udslice(Identity, index)

\* ------------------------------------------------------------------------
\* coord.py: phase 2 coordinates
\* ------------------------------------------------------------------------
N_CPERM == 40320
N_UD_EDGES == 40320
N_UDSLICE_SORTED == 24

get_cperm(c) == perm_to_index(c.cp)

set_cperm(c, index) == [c EXCEPT !.cp = index_to_perm(index, 8)]

cperm_to_cube(index) == set_cperm(Identity, index)

\* get_ud_edges_perm: Lehmer index of cube.ep[:8]
get_ud_edges_perm(c) == perm_to_index([i \in 0..7 |-> c.ep[i]])

\* set_ud_edges_perm: cube.ep[:8] = _index_to_perm(index, 8)
set_ud_edges_perm(c, index) ==
    LET perm == index_to_perm(index, 8)
    IN  [c EXCEPT !.ep = [i \in 0..11 |-> IF i < 8 THEN perm[i] ELSE c.ep[i]]]

ud_edges_to_cube(index) == set_ud_edges_perm(Identity, index)

\* get_udslice_sorted: Lehmer index of [ep[i] - 8 for i in 8..11]
get_udslice_sorted(c) == perm_to_index([i \in 0..3 |-> c.ep[8 + i] - 8])

\* set_udslice_sorted: ep[8 + i] = perm[i] + 8
set_udslice_sorted(c, index) ==
    LET perm == index_to_perm(index, 4)
    IN  [c EXCEPT !.ep = [i \in 0..11 |-> IF i < 8 THEN c.ep[i] ELSE perm[i - 8] + 8]]

udslice_sorted_to_cube(index) == set_udslice_sorted(Identity, index)

\* ------------------------------------------------------------------------
\* move_tables.py: an entry of each table, as its generator computes it
\* ------------------------------------------------------------------------
\* _gen_twist_move: table[i][m]
twist_move(i, m) == get_twist(apply_move(copy(set_twist(Identity, i)), MOVE_CUBES[m]))

\* _gen_flip_move: table[i][m]
flip_move(i, m) == get_flip(apply_move(copy(set_flip(Identity, i)), MOVE_CUBES[m]))

\* _gen_udslice_move: table[i][m]
udslice_move(i, m) ==
    get_udslice(apply_move(copy(set_udslice(Identity, i)), MOVE_CUBES[m]))

\* _gen_cperm_move with the column taken for a move index of the 18
cperm_move_by_move_index(i, mi) ==
    get_cperm(apply_move(copy(set_cperm(Identity, i)), MOVE_CUBES[mi]))

\* _gen_cperm_move: table[i][mi]
cperm_move(i, mi) ==
    get_cperm(apply_move(copy(set_cperm(Identity, i)), MOVE_CUBES[PHASE2_MOVES[mi]]))

\* _gen_ud_edges_move: table[i][mi]; positions 8..11 are set to the identity
ud_edges_move(i, mi) ==
    LET c  == set_ud_edges_perm(Identity, i)
        c8 == [c EXCEPT !.ep = [k \in 0..11 |-> IF k >= 8 THEN k ELSE c.ep[k]]]
    IN  get_ud_edges_perm(apply_move(copy(c8), MOVE_CUBES[PHASE2_MOVES[mi]]))

\* _gen_udslice_sorted_move: table[i][mi]; positions 0..7 are set to the identity
udslice_sorted_move(i, mi) ==
    LET c0 == [Identity EXCEPT !.ep = [k \in 0..11 |-> IF k < 8 THEN k ELSE Identity.ep[k]]]
        c  == set_udslice_sorted(c0, i)
    IN  get_udslice_sorted(apply_move(copy(c), MOVE_CUBES[PHASE2_MOVES[mi]]))

\* ------------------------------------------------------------------------
\* pruning_tables.py: the four tables, generated breadth first
\* ------------------------------------------------------------------------
\* The generators run their queue until it is empty.  The search below only
\* ever compares an entry with "remaining", which is at most max_length:
\* whether an entry is above it is decided by the entries of depth
\* 0..MaxLength, so the queue is processed up to that depth and the entries
\* beyond it keep the generators' start value 0xFF, which is above every
\* "remaining" as the true entries are.
BfsDepth == MaxLength

UNVISITED == 255

\* The while loop of a generator, taken one depth at a time: the table once
\* every queue entry of depth < d is expanded, and the queue entries of
\* depth d.  The table is a function over the indices written so far.
RECURSIVE Bfs(_, _, _, _, _)
Bfs(MoveA(_, _), MoveB(_, _), n_moves, n_b, d) ==
    IF d = 0 THEN [table |-> (0 :> 0), queue |-> {<<0, 0>>}]
    ELSE LET p    == Bfs(MoveA, MoveB, n_moves, n_b, d - 1)
             succ == {<<MoveA(e[1], m), MoveB(e[2], m)>> :
                         e \in p.queue, m \in 0..(n_moves - 1)}
             new  == {e \in succ : (e[1] * n_b + e[2]) \notin DOMAIN p.table}
         IN  [table |-> p.table @@ [idx \in {e[1] * n_b + e[2] : e \in new} |-> d],
              queue |-> new]

\* table[idx] of a generated table
TableAt(table, idx) == IF idx \in DOMAIN table THEN table[idx] ELSE UNVISITED

\* _gen_flip_udslice_prune
flip_udslice_prune == Bfs(flip_move, udslice_move, 18, N_UDSLICE, BfsDepth).table

\* _gen_twist_udslice_prune
twist_udslice_prune == Bfs(twist_move, udslice_move, 18, N_UDSLICE, BfsDepth).table

\* _gen_cperm_udslice_sorted_prune
cperm_uds_prune ==
    Bfs(cperm_move, udslice_sorted_move, PyLen(PHASE2_MOVES), N_UDSLICE_SORTED, BfsDepth).table

\* _gen_ud_edges_udslice_sorted_prune
ud_edges_uds_prune ==
    Bfs(ud_edges_move, udslice_sorted_move, PyLen(PHASE2_MOVES), N_UDSLICE_SORTED, BfsDepth).table

\* ------------------------------------------------------------------------
\* search.py: move filter and heuristics
\* ------------------------------------------------------------------------
\* _MOVE_AXIS = [i // 3 for i in range(18)]
MOVE_AXIS(m) == m \div 3

\* _OPPOSITE = {0: 3, 3: 0, 1: 4, 4: 1, 2: 5, 5: 2}
OPPOSITE == (0 :> 3) @@ (3 :> 0) @@ (1 :> 4) @@ (4 :> 1) @@ (2 :> 5) @@ (5 :> 2)

\* A slip in _moves_compatible: the filter lets every move through
moves_compatible_unfiltered(last_move, move) == TRUE

\* _moves_compatible without the rule on opposite faces
moves_compatible_same_face_only(last_move, move) ==
    IF last_move = -1 THEN TRUE ELSE MOVE_AXIS(last_move) # MOVE_AXIS(move)

\* _moves_compatible
moves_compatible(last_move, move) ==
    IF last_move = -1 THEN TRUE
    ELSE LET last_axis == MOVE_AXIS(last_move)
             this_axis == MOVE_AXIS(move)
         IN  IF last_axis = this_axis THEN FALSE
             ELSE IF OPPOSITE[last_axis] = this_axis /\ last_axis > this_axis THEN FALSE
             ELSE TRUE

Max(a, b) == IF a > b THEN a ELSE b

\* _phase1_prune with the sum of the two table entries in the place of max
phase1_prune_sum(twist, flip, udslice) ==
    TableAt(flip_udslice_prune, flip * N_UDSLICE + udslice)
    + TableAt(twist_udslice_prune, twist * N_UDSLICE + udslice)

\* _phase1_prune returning twice the larger table entry
phase1_prune_doubled(twist, flip, udslice) ==
    2 * Max(TableAt(flip_udslice_prune, flip * N_UDSLICE + udslice),
            TableAt(twist_udslice_prune, twist * N_UDSLICE + udslice))

\* TwoPhaseSearch._phase1_prune
phase1_prune(twist, flip, udslice) ==
    LET idx1 == flip * N_UDSLICE + udslice
        idx2 == twist * N_UDSLICE + udslice
        d1   == TableAt(flip_udslice_prune, idx1)
        d2   == TableAt(twist_udslice_prune, idx2)
    IN  Max(d1, d2)

\* TwoPhaseSearch._phase2_prune
phase2_prune(cperm, ud_edges, udslice_sorted) ==
    LET n_uds == N_UDSLICE_SORTED
        idx1  == cperm * n_uds + udslice_sorted
        idx2  == ud_edges * n_uds + udslice_sorted
        d1    == TableAt(cperm_uds_prune, idx1)
        d2    == TableAt(ud_edges_uds_prune, idx2)
    IN  Max(d1, d2)

\* ------------------------------------------------------------------------
\* Python values
\* ------------------------------------------------------------------------
\* An attribute that has not been assigned yet
PyUnset == <<>>

PyNone == <<"None">>

\* A value other than None
Val(x) == <<"value", x>>

ValueOf(v) == v[2]

\* l[:n]
Prefix(l, n) == [i \in 0..(n - 1) |-> l[i]]

\* a + b, for lists
Concat(a, b) ==
    [i \in 0..(PyLen(a) + PyLen(b) - 1) |-> IF i < PyLen(a) THEN a[i] ELSE b[i - PyLen(a)]]

\* s.replace(" ", ""), from character i on; out holds the characters kept
RECURSIVE StripFrom(_, _, _, _)
StripFrom(s, n, i, out) ==
    IF i = n THEN out
    ELSE StripFrom(s, n, i + 1, IF s[i] = " " THEN out ELSE Append(out, s[i]))

StripSpaces(s) == List(StripFrom(s, PyLen(s), 0, <<>>))

\* ------------------------------------------------------------------------
\* State
\* ------------------------------------------------------------------------
\* The threads that may call the facade; the second one calls it only in
\* the specification of concurrent calls.
Threads == {1, 2}

\* timeout=30, the default of solve (and of TwoPhaseSearch.solve)
DefaultTimeout == 30

VARIABLES
    now,                 \* time.time(), in ticks
    self_cube,           \* _solver._cube
    self_best_solution,  \* _solver._best_solution
    self_phase1_length,  \* _solver._phase1_length
    self_timeout,        \* _solver._timeout
    th,                  \* per thread: its position and the locals of its frames
    g_solver,            \* solver.py: the module global _solver
    g_tables,            \* move_tables._tables and pruning_tables._tables
    files,               \* tables_cache/<name>.pkl: what each file holds
    hist                 \* history: constructions, generator runs, the first files

vars == <<now, self_cube, self_best_solution, self_phase1_length, self_timeout, th,
          g_solver, g_tables, files, hist>>

fields == <<self_cube, self_best_solution, self_phase1_length, self_timeout>>

\* The process outside the solver's attributes
env == <<g_solver, g_tables, files, hist>>

\* TwoPhaseSearch.__init__: the cache names of the ten tables, in the order
\* they are loaded
TABLES ==
    List(<<"twist_move", "flip_move", "udslice_move", "cperm_move", "ud_edges_move",
           "udslice_sorted_move", "flip_udslice_prune", "twist_udslice_prune",
           "cperm_udslice_sorted_prune", "ud_edges_udslice_sorted_prune">>)

TableNames == {TABLES[k] : k \in 0..(PyLen(TABLES) - 1)}

\* A process in which _get_solver() has returned once: instance 0 is built,
\* every table is in _tables and in the cache directory
EnvBuilt ==
    /\ g_solver = Val(0)
    /\ g_tables = [name \in TableNames |-> "generated"]
    /\ files = [name \in TableNames |-> "generated"]
    /\ hist = [constructed |-> 1,
               generated |-> [name \in TableNames |-> 0],
               initial |-> [name \in TableNames |-> "generated"]]

\* The locals of a thread that is not inside solve
Locals(pc, c) ==
    [pc |-> pc,
     cube |-> c,                 \* the caller's cube (cube_input / cube)
     n_scramble |-> 0,           \* moves applied to it so far by the caller
     move_str |-> "",            \* the move the caller applied last
     product |-> <<>>,           \* the last cube.multiply(MOVE_CUBES[m]): m and the result
     move_history |-> <<>>,      \* GameCubeState.move_history
     start |-> c,                \* history: the cube when move_history was last empty
     n_undo |-> 0,               \* history: moves undone since the last move applied
     out |-> [op |-> "none"],    \* the last operation on the cube and its outcome
     damage |-> <<>>,            \* history: the changes the caller made to the lists
     corrupted |-> FALSE,        \* the caller built it from arbitrary lists
     input |-> <<>>,             \* cube_input when it is a facelet string
     max_length |-> 0,
     timeout_seconds |-> 0,
     start_time |-> 0,
     twist |-> 0, flip |-> 0, udslice |-> 0,
     phase1_depth |-> 0,
     moves |-> <<>>, twist_s |-> <<>>, flip_s |-> <<>>, udslice_s |-> <<>>,
     depth |-> 0, m |-> 0, ret |-> FALSE,
     phase1_moves |-> <<>>, max_phase2_depth |-> 0,
     cperm |-> 0, ud_edges |-> 0, udslice_sorted |-> 0,
     phase2_depth |-> 0,
     moves2 |-> <<>>, cperm_s |-> <<>>, ud_edges_s |-> <<>>, uds_s |-> <<>>,
     depth2 |-> 0, mi |-> 0, ret2 |-> FALSE,
     names |-> <<>>,
     name |-> "",                \* _load_or_generate: its argument name
     table |-> PyNone,           \* _load_or_generate: its local table
     inst |-> <<>>,              \* TwoPhaseSearch.__init__: the tables assigned so far
     searched |-> FALSE,         \* history: the phase 1 loop was entered
     timed_out |-> FALSE,        \* history: a deadline check has fired
     result |-> [kind |-> "none"]]

\* The locals of a thread whose call has ended: only the call's arguments
\* and its outcome remain.
Ended(r, result) ==
    [Locals("done", r.cube) EXCEPT
        !.max_length = r.max_length,
        !.timeout_seconds = r.timeout_seconds,
        !.searched = r.searched,
        !.timed_out = r.timed_out,
        !.result = result]

Return(v) == [kind |-> "return", value |-> v]

Raise(exc, msg) == [kind |-> "raise", exc |-> exc, msg |-> msg]

Upd(t, r) == th' = [th EXCEPT ![t] = r]

Init ==
    /\ now = 0
    /\ self_cube = PyUnset
    /\ self_best_solution = PyUnset
    /\ self_phase1_length = PyUnset
    /\ self_timeout = PyUnset
    /\ th = [t \in Threads |-> IF t = 1 THEN Locals("idle", Identity)
                                        ELSE Locals("off", Identity)]
    /\ EnvBuilt

\* ------------------------------------------------------------------------
\* The caller
\* ------------------------------------------------------------------------
\* The clock advances while a call is running.
Tick ==
    /\ now < MaxTime
    /\ \E t \in Threads : th[t].pc \notin {"idle", "off", "done"}
    /\ now' = now + 1
    /\ UNCHANGED <<env, fields, th>>

\* solve_from_moves: move_map = {name: i for i, name in enumerate(MOVE_NAMES)}
move_map(name) == CHOOSE i \in 0..17 : MOVE_NAMES[i] = name

\* solve_from_moves: cube.apply_move(MOVE_CUBES[move_map[move_str]])
Scramble(t) ==
    /\ th[t].pc = "idle"
    /\ ~th[t].corrupted
    /\ th[t].n_scramble < ScrambleLen
    /\ \E move_str \in {MOVE_NAMES[i] : i \in 0..17} :
          Upd(t, [th[t] EXCEPT !.cube = apply_move(@, MOVE_CUBES[move_map(move_str)]),
                               !.move_str = move_str,
                               !.n_scramble = @ + 1])
    /\ UNCHANGED <<env, now, fields>>

\* cube.multiply(base) on the caller's cube, with base one of the six
\* quarter turns as in the construction of the half and inverse turns: the
\* product is a new cube
Multiply(t) ==
    /\ th[t].pc = "idle"
    /\ ~th[t].corrupted
    /\ \E m \in {3 * f : f \in 0..5} :
          Upd(t, [th[t] EXCEPT !.product =
                     <<m, multiply(th[t].cube, MOVE_CUBES[m])>>])
    /\ UNCHANGED <<env, now, fields>>

\* The cubes a caller can build with CubieCube(cp, co, ep, eo) that break
\* one invariant of a valid cube c: two corners swapped, one edge flipped,
\* one corner twisted, a corner or an edge cubie duplicated.
Corruptions(c) ==
    {[c EXCEPT !.cp = [@ EXCEPT ![0] = c.cp[1], ![1] = c.cp[0]]],
     [c EXCEPT !.ep = [@ EXCEPT ![0] = c.ep[1], ![1] = c.ep[0]]],
     [c EXCEPT !.eo = [@ EXCEPT ![11] = 1 - @]],
     [c EXCEPT !.co = [@ EXCEPT ![7] = (@ + 1) % 3]],
     [c EXCEPT !.co = [@ EXCEPT ![0] = (@ + 2) % 3]],
     [c EXCEPT !.cp = [@ EXCEPT ![6] = c.cp[7]]],
     [c EXCEPT !.ep = [@ EXCEPT ![0] = c.ep[11]]]}

Corrupt(t) ==
    /\ th[t].pc = "idle"
    /\ ~th[t].corrupted
    /\ \E c \in Corruptions(th[t].cube) :
          Upd(t, [th[t] EXCEPT !.cube = c, !.corrupted = TRUE, !.move_str = ""])
    /\ UNCHANGED <<env, now, fields>>

\* solve(cube_input, max_length, timeout) with a CubieCube
CallCube(t) ==
    /\ th[t].pc = "idle"
    /\ \E ml \in 0..MaxLength, to \in {0, DefaultTimeout} :
          Upd(t, [Locals("solve", th[t].cube) EXCEPT
                     !.max_length = ml, !.timeout_seconds = to])
    /\ UNCHANGED <<env, now, fields>>

\* The facelet string of a cube, with or without a space after each face
FaceletInput(c, spaced) ==
    LET s == to_facelet_string(c)
    IN  IF spaced
        THEN [x \in 0..58 |-> IF x % 10 = 9 THEN " " ELSE s[x - (x \div 10)]]
        ELSE s

\* solve(cube_input, max_length, timeout) with a facelet string: a caller
\* that read the string off a cube it built from arbitrary lists passes it
\* as it is, with the longest max_length and the default timeout
CallStr(t) ==
    /\ th[t].pc = "idle"
    /\ \E ml \in 0..MaxLength, to \in {0, DefaultTimeout}, spaced \in BOOLEAN :
          /\ th[t].corrupted => (ml = MaxLength /\ to = DefaultTimeout /\ ~spaced)
          /\ Upd(t, [Locals("decode", th[t].cube) EXCEPT
                     !.input = FaceletInput(th[t].cube, spaced),
                     !.max_length = ml, !.timeout_seconds = to])
    /\ UNCHANGED <<env, now, fields>>

\* solve: cube_input.replace(" ", ""), CubieCube.from_facelet_string
Decode(t) ==
    /\ th[t].pc = "decode"
    /\ LET d == from_facelet_string(StripSpaces(th[t].input))
       IN  IF d.ok
           THEN Upd(t, [th[t] EXCEPT !.pc = "solve", !.cube = d.cube, !.input = <<>>])
           ELSE Upd(t, Ended(th[t], Raise("ValueError", d.error)))
    /\ UNCHANGED <<env, now, fields>>

\* ------------------------------------------------------------------------
\* search.py: TwoPhaseSearch.solve
\* ------------------------------------------------------------------------
\* time.time() > self._timeout
Expired == now > ValueOf(self_timeout)

\* solve, up to the extraction of the phase 1 coordinates
SolveEntry(t) ==
    /\ th[t].pc = "solve"
    /\ LET r   == th[t]
           err == validate(r.cube)
       IN  IF err # "None"
           THEN Upd(t, Ended(r, Raise("ValueError", <<"Invalid cube state: ", err>>)))
           ELSE IF is_solved(r.cube)
           THEN Upd(t, Ended(r, Return(Val([moves |-> <<>>, phase1_length |-> 0]))))
           ELSE Upd(t, [r EXCEPT !.pc = "set_cube",
                                 !.start_time = now,
                                 !.twist = get_twist(r.cube),
                                 !.flip = get_flip(r.cube),
                                 !.udslice = get_udslice(r.cube)])
    /\ UNCHANGED <<env, now, fields>>

\* self._cube = cube
SetCube(t) ==
    /\ th[t].pc = "set_cube"
    /\ self_cube' = Val(th[t].cube)
    /\ Upd(t, [th[t] EXCEPT !.pc = "set_best"])
    /\ UNCHANGED <<env, now, self_best_solution, self_phase1_length, self_timeout>>

\* self._best_solution = None
SetBest(t) ==
    /\ th[t].pc = "set_best"
    /\ self_best_solution' = PyNone
    /\ Upd(t, [th[t] EXCEPT !.pc = "set_len"])
    /\ UNCHANGED <<env, now, self_cube, self_phase1_length, self_timeout>>

\* self._phase1_length = 0
SetLen(t) ==
    /\ th[t].pc = "set_len"
    /\ self_phase1_length' = Val(0)
    /\ Upd(t, [th[t] EXCEPT !.pc = "set_timeout"])
    /\ UNCHANGED <<env, now, self_cube, self_best_solution, self_timeout>>

\* self._timeout = start_time + timeout_seconds
SetTimeout(t) ==
    /\ th[t].pc = "set_timeout"
    /\ self_timeout' = Val(th[t].start_time + th[t].timeout_seconds)
    /\ Upd(t, [th[t] EXCEPT !.pc = "p1_iter", !.phase1_depth = 0, !.searched = TRUE])
    /\ UNCHANGED <<env, now, self_cube, self_best_solution, self_phase1_length>>

\* A slip in the range of the phase 1 depths: one depth too many
Phase1DepthsOneMore(max_length) == 0..(max_length + 1)

\* range(max_length + 1)
Phase1Depths(max_length) == 0..max_length

\* for phase1_depth in range(max_length + 1): the deadline check, the fresh
\* stacks and the call of _phase1_search at depth 0
Phase1Iter(t) ==
    /\ th[t].pc = "p1_iter"
    /\ LET r == th[t]
           d == r.phase1_depth
       IN  IF d \notin Phase1Depths(r.max_length)
           THEN Upd(t, [r EXCEPT !.pc = "fin_check"])
           ELSE IF Expired
           THEN Upd(t, [r EXCEPT !.pc = "fin_check", !.timed_out = TRUE])
           ELSE Upd(t, [r EXCEPT !.pc = "p1_enter",
                                 !.moves = Repeat(-1, d),
                                 !.twist_s = [Repeat(0, d + 1) EXCEPT ![0] = r.twist],
                                 !.flip_s = [Repeat(0, d + 1) EXCEPT ![0] = r.flip],
                                 !.udslice_s = [Repeat(0, d + 1) EXCEPT ![0] = r.udslice],
                                 !.depth = 0])
    /\ UNCHANGED <<env, now, fields>>

\* _phase1_search, from its entry to the start of its loop
Phase1Enter(t) ==
    /\ th[t].pc = "p1_enter"
    /\ LET r       == th[t]
           twist   == r.twist_s[r.depth]
           flip    == r.flip_s[r.depth]
           udslice == r.udslice_s[r.depth]
           max_depth == r.phase1_depth
       IN  IF r.depth = max_depth
           THEN IF twist = 0 /\ flip = 0 /\ udslice = 0
                THEN Upd(t, [r EXCEPT !.pc = "start_phase2",
                                      !.phase1_moves = Prefix(r.moves, r.depth),
                                      !.max_phase2_depth = r.max_length - r.depth])
                ELSE Upd(t, [r EXCEPT !.pc = "p1_ret", !.ret = FALSE])
           ELSE IF phase1_prune(twist, flip, udslice) > max_depth - r.depth
           THEN Upd(t, [r EXCEPT !.pc = "p1_ret", !.ret = FALSE])
           ELSE Upd(t, [r EXCEPT !.pc = "p1_loop", !.m = 0])
    /\ UNCHANGED <<env, now, fields>>

\* The next m of "for m in range(n)" that passes the filter, from m on, with
\* Move(m) the move that m stands for; n when there is none
RECURSIVE NextCompatible(_, _, _, _)
NextCompatible(last_move, Move(_), m, n) ==
    IF m >= n THEN n
    ELSE IF moves_compatible(last_move, Move(m)) THEN m
    ELSE NextCompatible(last_move, Move, m + 1, n)

Same(m) == m

\* _phase1_search: one round of "for m in range(18)" that passes the filter
Phase1Loop(t) ==
    /\ th[t].pc = "p1_loop"
    /\ LET r         == th[t]
           last_move == IF r.depth > 0 THEN r.moves[r.depth - 1] ELSE -1
           m         == NextCompatible(last_move, Same, r.m, 18)
       IN  IF m = 18
           THEN Upd(t, [r EXCEPT !.pc = "p1_ret", !.ret = FALSE])
           ELSE IF Expired
           THEN Upd(t, [r EXCEPT !.pc = "p1_ret", !.ret = TRUE, !.timed_out = TRUE])
           ELSE Upd(t, [r EXCEPT
                   !.pc = "p1_enter",
                   !.m = m,
                   !.moves = [@ EXCEPT ![r.depth] = m],
                   !.twist_s = [@ EXCEPT ![r.depth + 1] = twist_move(r.twist_s[r.depth], m)],
                   !.flip_s = [@ EXCEPT ![r.depth + 1] = flip_move(r.flip_s[r.depth], m)],
                   !.udslice_s = [@ EXCEPT ![r.depth + 1] =
                                      udslice_move(r.udslice_s[r.depth], m)],
                   !.depth = r.depth + 1])
    /\ UNCHANGED <<env, now, fields>>

\* A call of _phase1_search returns ret: to the loop of the frame above, or,
\* from depth 0, to the loop of solve
Phase1Return(t) ==
    /\ th[t].pc = "p1_ret"
    /\ LET r == th[t]
       IN  IF r.depth = 0
           THEN IF r.ret \/ self_best_solution # PyNone
                THEN Upd(t, [r EXCEPT !.pc = "fin_check"])
                ELSE Upd(t, [r EXCEPT !.pc = "p1_iter", !.phase1_depth = @ + 1])
           ELSE IF r.ret
           THEN Upd(t, [r EXCEPT !.depth = @ - 1])
           ELSE Upd(t, [r EXCEPT !.pc = "p1_loop", !.depth = @ - 1,
                                 !.m = r.moves[r.depth - 1] + 1])
    /\ UNCHANGED <<env, now, fields>>

\* A sequence of move indices applied to a cube, one apply_move after the other
RECURSIVE ApplyMoves(_, _, _)
ApplyMoves(c, moves, i) ==
    IF i >= PyLen(moves) THEN c
    ELSE ApplyMoves(apply_move(c, MOVE_CUBES[moves[i]]), moves, i + 1)

\* _start_phase2, up to the test of the phase 2 coordinates
StartPhase2(t) ==
    /\ th[t].pc = "start_phase2"
    /\ LET r     == th[t]
           cube2 == ApplyMoves(copy(ValueOf(self_cube)), r.phase1_moves, 0)
           cperm == get_cperm(cube2)
           ud_edges == get_ud_edges_perm(cube2)
           udslice_sorted == get_udslice_sorted(cube2)
       IN  IF cperm = 0 /\ ud_edges = 0 /\ udslice_sorted = 0
           THEN Upd(t, [r EXCEPT !.pc = "sp2_set_best"])
           ELSE Upd(t, [r EXCEPT !.pc = "p2_iter",
                                 !.cperm = cperm,
                                 !.ud_edges = ud_edges,
                                 !.udslice_sorted = udslice_sorted,
                                 !.phase2_depth = 1])
    /\ UNCHANGED <<env, now, fields>>

\* _start_phase2: self._best_solution = list(phase1_moves)
StartPhase2SetBest(t) ==
    /\ th[t].pc = "sp2_set_best"
    /\ self_best_solution' = Val(th[t].phase1_moves)
    /\ Upd(t, [th[t] EXCEPT !.pc = "sp2_set_len"])
    /\ UNCHANGED <<env, now, self_cube, self_phase1_length, self_timeout>>

\* _start_phase2: self._phase1_length = len(phase1_moves); return True
StartPhase2SetLen(t) ==
    /\ th[t].pc = "sp2_set_len"
    /\ self_phase1_length' = Val(PyLen(th[t].phase1_moves))
    /\ Upd(t, [th[t] EXCEPT !.pc = "p1_ret", !.ret = TRUE])
    /\ UNCHANGED <<env, now, self_cube, self_best_solution, self_timeout>>

\* _start_phase2: for phase2_depth in range(1, max_phase2_depth + 1)
Phase2Iter(t) ==
    /\ th[t].pc = "p2_iter"
    /\ LET r == th[t]
           d == r.phase2_depth
       IN  IF d > r.max_phase2_depth
           THEN Upd(t, [r EXCEPT !.pc = "p1_ret", !.ret = FALSE])
           ELSE IF Expired
           THEN Upd(t, [r EXCEPT !.pc = "p1_ret", !.ret = TRUE, !.timed_out = TRUE])
           ELSE Upd(t, [r EXCEPT !.pc = "p2_enter",
                                 !.moves2 = Repeat(-1, d),
                                 !.cperm_s = [Repeat(0, d + 1) EXCEPT ![0] = r.cperm],
                                 !.ud_edges_s = [Repeat(0, d + 1) EXCEPT ![0] = r.ud_edges],
                                 !.uds_s = [Repeat(0, d + 1) EXCEPT ![0] = r.udslice_sorted],
                                 !.depth2 = 0])
    /\ UNCHANGED <<env, now, fields>>

\* _phase2_search, from its entry to the start of its loop
Phase2Enter(t) ==
    /\ th[t].pc = "p2_enter"
    /\ LET r        == th[t]
           cperm    == r.cperm_s[r.depth2]
           ud_edges == r.ud_edges_s[r.depth2]
           uds      == r.uds_s[r.depth2]
           max_depth == r.phase2_depth
       IN  IF r.depth2 = max_depth
           THEN IF cperm = 0 /\ ud_edges = 0 /\ uds = 0
                THEN Upd(t, [r EXCEPT !.pc = "p2_set_best"])
                ELSE Upd(t, [r EXCEPT !.pc = "p2_ret", !.ret2 = FALSE])
           ELSE IF phase2_prune(cperm, ud_edges, uds) > max_depth - r.depth2
           THEN Upd(t, [r EXCEPT !.pc = "p2_ret", !.ret2 = FALSE])
           ELSE Upd(t, [r EXCEPT !.pc = "p2_loop", !.mi = 0])
    /\ UNCHANGED <<env, now, fields>>

\* A slip in full_solution: the phase 1 moves are left out
full_solution_without_phase1(r) ==
    [i \in 0..(r.depth2 - 1) |-> PHASE2_MOVES[r.moves2[i]]]

\* A slip in full_solution: the indices into PHASE2_MOVES are appended as
\* they are, instead of the moves they stand for
full_solution_raw_indices(r) ==
    Concat(r.phase1_moves, [i \in 0..(r.depth2 - 1) |-> r.moves2[i]])

\* _phase2_search: full_solution = list(phase1_moves) + [PHASE2_MOVES[moves[i]]
\* for i in range(depth)]
full_solution(r) ==
    Concat(r.phase1_moves, [i \in 0..(r.depth2 - 1) |-> PHASE2_MOVES[r.moves2[i]]])

\* _phase2_search: self._best_solution = full_solution
Phase2SetBest(t) ==
    /\ th[t].pc = "p2_set_best"
    /\ self_best_solution' = Val(full_solution(th[t]))
    /\ Upd(t, [th[t] EXCEPT !.pc = "p2_set_len"])
    /\ UNCHANGED <<env, now, self_cube, self_phase1_length, self_timeout>>

\* _phase2_search: self._phase1_length = len(phase1_moves); return True
Phase2SetLen(t) ==
    /\ th[t].pc = "p2_set_len"
    /\ self_phase1_length' = Val(PyLen(th[t].phase1_moves))
    /\ Upd(t, [th[t] EXCEPT !.pc = "p2_ret", !.ret2 = TRUE])
    /\ UNCHANGED <<env, now, self_cube, self_best_solution, self_timeout>>

Phase2Move(mi) == PHASE2_MOVES[mi]

\* _phase2_search: one round of "for mi, m in enumerate(PHASE2_MOVES)" that
\* passes the filter
Phase2Loop(t) ==
    /\ th[t].pc = "p2_loop"
    /\ LET r  == th[t]
           last_real_move ==
               IF r.depth2 > 0 THEN PHASE2_MOVES[r.moves2[r.depth2 - 1]]
               ELSE IF PyLen(r.phase1_moves) > 0
                    THEN r.phase1_moves[PyLen(r.phase1_moves) - 1]
               ELSE -1
           n  == PyLen(PHASE2_MOVES)
           mi == NextCompatible(last_real_move, Phase2Move, r.mi, n)
       IN  IF mi = n
           THEN Upd(t, [r EXCEPT !.pc = "p2_ret", !.ret2 = FALSE])
           ELSE IF Expired
           THEN Upd(t, [r EXCEPT !.pc = "p2_ret", !.ret2 = TRUE, !.timed_out = TRUE])
           ELSE Upd(t, [r EXCEPT
                   !.pc = "p2_enter",
                   !.mi = mi,
                   !.moves2 = [@ EXCEPT ![r.depth2] = mi],
                   !.cperm_s = [@ EXCEPT ![r.depth2 + 1] = cperm_move(r.cperm_s[r.depth2], mi)],
                   !.ud_edges_s = [@ EXCEPT ![r.depth2 + 1] =
                                       ud_edges_move(r.ud_edges_s[r.depth2], mi)],
                   !.uds_s = [@ EXCEPT ![r.depth2 + 1] =
                                  udslice_sorted_move(r.uds_s[r.depth2], mi)],
                   !.depth2 = r.depth2 + 1])
    /\ UNCHANGED <<env, now, fields>>

\* A call of _phase2_search returns ret2: to the loop of the frame above, or,
\* from depth 0, to the loop of _start_phase2
Phase2Return(t) ==
    /\ th[t].pc = "p2_ret"
    /\ LET r == th[t]
       IN  IF r.depth2 = 0
           THEN IF r.ret2
                THEN Upd(t, [r EXCEPT !.pc = "p1_ret", !.ret = TRUE])
                ELSE Upd(t, [r EXCEPT !.pc = "p2_iter", !.phase2_depth = @ + 1])
           ELSE IF r.ret2
           THEN Upd(t, [r EXCEPT !.depth2 = @ - 1])
           ELSE Upd(t, [r EXCEPT !.pc = "p2_loop", !.depth2 = @ - 1,
                                 !.mi = r.moves2[r.depth2 - 1] + 1])
    /\ UNCHANGED <<env, now, fields>>

\* A slip at the end of solve: the search that found nothing raises
FinCheckRaises(t) ==
    /\ th[t].pc = "fin_check"
    /\ IF self_best_solution # PyNone
       THEN Upd(t, [th[t] EXCEPT !.pc = "fin_names"])
       ELSE Upd(t, Ended(th[t], Raise("TimeoutError", <<"no solution found">>)))
    /\ UNCHANGED <<env, now, fields>>

\* solve: if self._best_solution is not None
FinCheck(t) ==
    /\ th[t].pc = "fin_check"
    /\ IF self_best_solution # PyNone
       THEN Upd(t, [th[t] EXCEPT !.pc = "fin_names"])
       ELSE Upd(t, Ended(th[t], Return(PyNone)))
    /\ UNCHANGED <<env, now, fields>>

\* solve: [MOVE_NAMES[m] for m in self._best_solution]
FinNames(t) ==
    /\ th[t].pc = "fin_names"
    /\ IF self_best_solution = PyNone
       THEN Upd(t, Ended(th[t], Raise("TypeError", <<"'NoneType' object is not iterable">>)))
       ELSE Upd(t, [th[t] EXCEPT
               !.pc = "fin_len",
               !.names = [i \in DOMAIN ValueOf(self_best_solution) |->
                             MOVE_NAMES[ValueOf(self_best_solution)[i]]]])
    /\ UNCHANGED <<env, now, fields>>

\* solve: return (moves, self._phase1_length); the facade wraps the pair
\* into {"moves": moves, "phase1_length": phase1_length}
FinLen(t) ==
    /\ th[t].pc = "fin_len"
    /\ Upd(t, Ended(th[t], Return(Val([moves |-> th[t].names,
                                       phase1_length |-> ValueOf(self_phase1_length)]))))
    /\ UNCHANGED <<env, now, fields>>

Next ==
    \/ Tick
    \/ \E t \in Threads :
          \/ Scramble(t)
          \/ Corrupt(t)
          \/ CallCube(t)
          \/ CallStr(t)
          \/ Decode(t)
          \/ SolveEntry(t)
          \/ SetCube(t)
          \/ SetBest(t)
          \/ SetLen(t)
          \/ SetTimeout(t)
          \/ Phase1Iter(t)
          \/ Phase1Enter(t)
          \/ Phase1Loop(t)
          \/ Phase1Return(t)
          \/ StartPhase2(t)
          \/ StartPhase2SetBest(t)
          \/ StartPhase2SetLen(t)
          \/ Phase2Iter(t)
          \/ Phase2Enter(t)
          \/ Phase2SetBest(t)
          \/ Phase2SetLen(t)
          \/ Phase2Loop(t)
          \/ Phase2Return(t)
          \/ FinCheck(t)
          \/ FinNames(t)
          \/ FinLen(t)

Spec == Init /\ [][Next]_vars

\* ------------------------------------------------------------------------
\* The cube operations alone: a caller that applies moves to its cube and
\* multiplies it by move cubes
\* ------------------------------------------------------------------------
NextLaw == \E t \in Threads : Scramble(t) \/ Multiply(t)

SpecLaw == Init /\ [][NextLaw]_vars

\* ------------------------------------------------------------------------
\* Two threads inside solve at once: both have called the facade, each with
\* the cube it got from one quarter turn, and share the solver _get_solver
\* returns
\* ------------------------------------------------------------------------
\* max_length of the two concurrent calls
ConcMaxLength == 1

\* The quarter turns the two callers scramble with: U and R
ConcMoves == {0, 3}

InitConc ==
    /\ now = 0
    /\ self_cube = PyUnset
    /\ self_best_solution = PyUnset
    /\ self_phase1_length = PyUnset
    /\ self_timeout = PyUnset
    /\ \E m1 \in ConcMoves, m2 \in ConcMoves :
          /\ m1 # m2
          /\ th = [t \in Threads |->
                    [Locals("solve", apply_move(Identity, MOVE_CUBES[IF t = 1 THEN m1 ELSE m2]))
                        EXCEPT !.max_length = ConcMaxLength,
                               !.timeout_seconds = DefaultTimeout]]
    /\ EnvBuilt

NextConc ==
    \E t \in Threads :
          \/ SolveEntry(t)
          \/ SetCube(t)
          \/ SetBest(t)
          \/ SetLen(t)
          \/ SetTimeout(t)
          \/ Phase1Iter(t)
          \/ Phase1Enter(t)
          \/ Phase1Loop(t)
          \/ Phase1Return(t)
          \/ StartPhase2(t)
          \/ StartPhase2SetBest(t)
          \/ StartPhase2SetLen(t)
          \/ Phase2Iter(t)
          \/ Phase2Enter(t)
          \/ Phase2SetBest(t)
          \/ Phase2SetLen(t)
          \/ Phase2Loop(t)
          \/ Phase2Return(t)
          \/ FinCheck(t)
          \/ FinNames(t)
          \/ FinLen(t)

SpecConc == InitConc /\ [][NextConc]_vars

\* ------------------------------------------------------------------------
\* model/cube_state.py: GameCubeState, the cube of the application, with
\* its move history
\* ------------------------------------------------------------------------
\* Longest move history of the game
GameLen == 2

\* l.append(v)
PyAppend(l, v) == [i \in 0..PyLen(l) |-> IF i < PyLen(l) THEN l[i] ELSE v]

\* MOVE_MAP = {name: i for i, name in enumerate(MOVE_NAMES)}
MOVE_MAP(name) == CHOOSE i \in 0..17 : MOVE_NAMES[i] = name

\* s.endswith(ch), for a string ch of one character
EndsWith(s, ch) == Len(s) > 0 /\ SubSeq(s, Len(s), Len(s)) = ch

\* A slip in _inverse_move: the move itself is returned
inverse_move_same_turn(move_name) == move_name

\* GameCubeState._inverse_move
inverse_move(move_name) ==
    IF EndsWith(move_name, "'") THEN SubSeq(move_name, 1, Len(move_name) - 1)
    ELSE IF EndsWith(move_name, "2") THEN move_name
    ELSE move_name \o "'"

\* An operation on the cube and how it ended
Outcome(op, arg, result) == [op |-> op, arg |-> arg, result |-> result]

\* GameCubeState.apply_move(move_name); "M" is a name the game does not know
GameApplyMove(t) ==
    /\ th[t].pc = "idle"
    /\ PyLen(th[t].move_history) < GameLen
    /\ \E move_name \in {MOVE_NAMES[i] : i \in 0..17} \cup {"M"} :
          IF \A i \in 0..17 : MOVE_NAMES[i] # move_name
          THEN Upd(t, [th[t] EXCEPT
                          !.out = Outcome("apply_move", move_name,
                                          Raise("ValueError", <<"Unknown move", move_name>>))])
          ELSE Upd(t, [th[t] EXCEPT
                          !.cube = apply_move(@, MOVE_CUBES[MOVE_MAP(move_name)]),
                          !.move_history = PyAppend(@, move_name),
                          !.n_undo = 0,
                          !.out = Outcome("apply_move", move_name, Return(PyNone))])
    /\ UNCHANGED <<env, now, fields>>

\* GameCubeState.undo()
GameUndo(t) ==
    /\ th[t].pc = "idle"
    /\ LET r == th[t]
           n == PyLen(r.move_history)
       IN  IF n = 0
           THEN Upd(t, [r EXCEPT !.out = Outcome("undo", <<>>, Return(PyNone))])
           ELSE LET last == r.move_history[n - 1]
                    inv  == inverse_move(last)
                    idx  == MOVE_MAP(inv)
                IN  Upd(t, [r EXCEPT
                               !.cube = apply_move(@, MOVE_CUBES[idx]),
                               !.move_history = Prefix(@, n - 1),
                               !.n_undo = @ + 1,
                               !.out = Outcome("undo", <<>>, Return(Val(last)))])
    /\ UNCHANGED <<env, now, fields>>

\* The facelet strings the application loads: those of the cubes one move
\* away from the solved cube, and of the solved cube
GameInputs == {to_facelet_string(Identity)} \cup {to_facelet_string(MOVE_CUBES[m]) : m \in 0..17}

\* CubieCube.from_facelet_string(s) for each of these strings
GameLoads == {[s |-> s, d |-> from_facelet_string(s)] : s \in GameInputs}

\* GameCubeState.set_from_facelet_string(s)
GameSetFromFaceletString(t) ==
    /\ th[t].pc = "idle"
    /\ \E l \in GameLoads :
          LET s == l.s
              d == l.d
          IN  IF d.ok
              THEN Upd(t, [th[t] EXCEPT
                              !.cube = d.cube,
                              !.move_history = <<>>,
                              !.start = d.cube,
                              !.n_undo = 0,
                              !.out = Outcome("set_from_facelet_string", s, Return(PyNone))])
              ELSE Upd(t, [th[t] EXCEPT
                              !.out = Outcome("set_from_facelet_string", s,
                                              Raise("ValueError", d.error))])
    /\ UNCHANGED <<env, now, fields>>

\* cube.inverse() on the cube of the game: the inverse is a new cube
Inverse(t) ==
    /\ th[t].pc = "idle"
    /\ Upd(t, [th[t] EXCEPT
                  !.out = Outcome("inverse", <<>>, Return(Val(inverse(th[t].cube))))])
    /\ UNCHANGED <<env, now, fields>>

NextGame ==
    \E t \in Threads :
          \/ GameApplyMove(t)
          \/ GameUndo(t)
          \/ GameSetFromFaceletString(t)
          \/ Inverse(t)

SpecGame == Init /\ [][NextGame]_vars

\* ------------------------------------------------------------------------
\* test_solver.py, test 3: a quarter turn applied four times, here for each
\* of the six quarter turns and on a cube that moves were applied to
\* ------------------------------------------------------------------------
\* "c.apply_move(MOVE_CUBES[0])" is about to run "for _ in range(4)": the
\* loop starts on the caller's cube with the quarter turn of face f
TurnBegin(t) ==
    /\ th[t].pc = "idle"
    /\ \E f \in 0..5 :
          Upd(t, [th[t] EXCEPT !.pc = "turn",
                               !.start = th[t].cube,
                               !.out = Outcome("turn", 3 * f, 0)])
    /\ UNCHANGED <<env, now, fields>>

\* One iteration of "for _ in range(4): c.apply_move(MOVE_CUBES[m])"
TurnStep(t) ==
    /\ th[t].pc = "turn"
    /\ LET r == th[t]
           k == r.out.result + 1
       IN  Upd(t, [r EXCEPT !.pc = IF k = 4 THEN "idle" ELSE "turn",
                            !.cube = apply_move(@, MOVE_CUBES[r.out.arg]),
                            !.out = Outcome("turn", r.out.arg, k)])
    /\ UNCHANGED <<env, now, fields>>

NextTurn == \E t \in Threads : Scramble(t) \/ TurnBegin(t) \/ TurnStep(t)

SpecTurn == Init /\ [][NextTurn]_vars

\* ------------------------------------------------------------------------
\* test_solver.py, test 6: validate() on a cube that moves were applied to,
\* and on cubes built from lists that break an invariant
\* ------------------------------------------------------------------------
\* The most changes a caller makes to the lists of a cube
MaxDamage == 2

\* The changes: two corners swapped, one edge flipped, one corner twisted
\* (either way), a corner or an edge cubie duplicated
DamageKinds ==
    {"swap_corners", "flip_edge", "twist_corner", "untwist_corner",
     "duplicate_corner", "duplicate_edge"}

\* CubieCube(cp, co, ep, eo) with the lists of c changed at site i (and at
\* the site after it)
Damaged(c, kind, i) ==
    CASE kind = "swap_corners" ->
            [c EXCEPT !.cp = [@ EXCEPT ![i] = c.cp[(i + 1) % 8], ![(i + 1) % 8] = c.cp[i]]]
      [] kind = "flip_edge" -> [c EXCEPT !.eo = [@ EXCEPT ![i] = 1 - @]]
      [] kind = "twist_corner" -> [c EXCEPT !.co = [@ EXCEPT ![i] = (@ + 1) % 3]]
      [] kind = "untwist_corner" -> [c EXCEPT !.co = [@ EXCEPT ![i] = (@ + 2) % 3]]
      [] kind = "duplicate_corner" -> [c EXCEPT !.cp = [@ EXCEPT ![i] = c.cp[(i + 1) % 8]]]
      [] kind = "duplicate_edge" -> [c EXCEPT !.ep = [@ EXCEPT ![i] = c.ep[(i + 1) % 12]]]

\* The caller builds a cube from changed lists: the first change at any
\* site, a further one at the first site
Damage(t) ==
    /\ th[t].pc = "idle"
    /\ PyLen(th[t].damage) < MaxDamage
    /\ \E kind \in DamageKinds, i \in 0..11 :
          /\ kind \in {"flip_edge", "duplicate_edge"} \/ i < 8
          /\ th[t].damage # <<>> => i = 0
          /\ Upd(t, [th[t] EXCEPT !.cube = Damaged(@, kind, i),
                                  !.corrupted = TRUE,
                                  !.move_str = "",
                                  !.damage = PyAppend(@, kind),
                                  !.out = [op |-> "none"]])
    /\ UNCHANGED <<env, now, fields>>

\* c.validate(): None, or the message
Validate(t) ==
    /\ th[t].pc = "idle"
    /\ LET err == validate(th[t].cube)
       IN  Upd(t, [th[t] EXCEPT
                      !.out = Outcome("validate", <<>>,
                                      Return(IF err = "None" THEN PyNone ELSE Val(err)))])
    /\ UNCHANGED <<env, now, fields>>

NextCheck == \E t \in Threads : Scramble(t) \/ Damage(t) \/ Validate(t)

SpecCheck == Init /\ [][NextCheck]_vars

\* ------------------------------------------------------------------------
\* test_solver.py, test 5: the facelet string of a cube that moves were
\* applied to, and CubieCube.from_facelet_string on a string
\* ------------------------------------------------------------------------
\* s = c.to_facelet_string()
ToFaceletString(t) ==
    /\ th[t].pc = "idle"
    /\ Upd(t, [th[t] EXCEPT
                  !.out = Outcome("to_facelet_string", <<>>,
                                  Return(Val(to_facelet_string(th[t].cube))))])
    /\ UNCHANGED <<env, now, fields>>

\* The strings a caller passes to from_facelet_string: the facelet string s
\* of its cube, and s cut, extended, emptied, with a character that is no
\* colour, with the centre of U or a corner or an edge facelet recoloured,
\* with two facelets of a corner exchanged, with the three facelets of the
\* corner position UFL copied to the corner position URF
FaceletStrings(s) ==
    {s,
     Prefix(s, 53),
     PyAppend(s, "U"),
     <<>>,
     [s EXCEPT ![0] = "X"],
     [s EXCEPT ![53] = "u"],
     [s EXCEPT ![4] = "R"],
     [s EXCEPT ![8] = s[9]],
     [s EXCEPT ![5] = s[10]],
     [s EXCEPT ![8] = s[9], ![9] = s[8]],
     [s EXCEPT ![8] = s[6], ![9] = s[18], ![20] = s[38]]}

\* c3 = CubieCube.from_facelet_string(s): a new cube, or a ValueError
FromFaceletString(t) ==
    /\ th[t].pc = "idle"
    /\ \E s \in FaceletStrings(to_facelet_string(th[t].cube)) :
          LET d == from_facelet_string(s)
          IN  Upd(t, [th[t] EXCEPT
                         !.out = Outcome("from_facelet_string", s,
                                         IF d.ok THEN Return(Val(d.cube))
                                         ELSE Raise("ValueError", d.error))])
    /\ UNCHANGED <<env, now, fields>>

NextFacelet == \E t \in Threads : Scramble(t) \/ ToFaceletString(t) \/ FromFaceletString(t)

SpecFacelet == Init /\ [][NextFacelet]_vars

\* ------------------------------------------------------------------------
\* move_tables.py: the cubes of the phase 2 generators and the phase 2 moves
\* applied to them
\* ------------------------------------------------------------------------
\* Moves applied in a row to one cube of a generator
G1Len == 3

\* The coordinates the generators' loops "for i in range(N)" are followed for
G1Kinds == {"cperm", "ud_edges", "udslice_sorted"}

G1Indexes(kind) ==
    CASE kind = "cperm" -> {0, 1, 5039, 20160, N_CPERM - 1}
      [] kind = "ud_edges" -> {0, 1, 5040, 23456, N_UD_EDGES - 1}
      [] kind = "udslice_sorted" -> {0, 1, 9, 14, N_UDSLICE_SORTED - 1}

\* The cube c a generator holds at round i of its loop: a fresh CubieCube
\* with one coordinate set (the other lists are the identity's)
G1Cube(kind, i) ==
    CASE kind = "cperm" -> set_cperm(Identity, i)
      [] kind = "ud_edges" ->
            LET c == set_ud_edges_perm(Identity, i)
            IN  [c EXCEPT !.ep = [k \in 0..11 |-> IF k >= 8 THEN k ELSE c.ep[k]]]
      [] kind = "udslice_sorted" ->
            LET c == [Identity EXCEPT !.ep = [k \in 0..11 |-> IF k < 8 THEN k ELSE @[k]]]
            IN  set_udslice_sorted(c, i)

\* A generator enters round i of its loop
G1Build(t) ==
    /\ th[t].pc = "idle"
    /\ ~th[t].corrupted
    /\ th[t].n_scramble = 0
    /\ th[t].out.op = "none"
    /\ \E kind \in G1Kinds : \E i \in G1Indexes(kind) :
          Upd(t, [th[t] EXCEPT !.cube = G1Cube(kind, i),
                               !.start = G1Cube(kind, i),
                               !.out = Outcome("build", <<kind, i>>, PyNone)])
    /\ UNCHANGED <<env, now, fields>>

\* cc.apply_move(MOVE_CUBES[m]) for one (mi, m) of enumerate(PHASE2_MOVES);
\* the outcome keeps the cube the move was applied to
G1Move(t) ==
    /\ th[t].pc = "idle"
    /\ ~th[t].corrupted
    /\ th[t].n_scramble < G1Len
    /\ \E mi \in 0..(PyLen(PHASE2_MOVES) - 1) :
          LET m == PHASE2_MOVES[mi]
          IN  Upd(t, [th[t] EXCEPT !.cube = apply_move(@, MOVE_CUBES[m]),
                                   !.move_str = MOVE_NAMES[m],
                                   !.n_scramble = @ + 1,
                                   !.out = Outcome("phase2_move", mi, th[t].cube)])
    /\ UNCHANGED <<env, now, fields>>

NextG1 == \E t \in Threads : G1Build(t) \/ G1Move(t)

SpecG1 == Init /\ [][NextG1]_vars

\* ------------------------------------------------------------------------
\* coord.py: a cube made from a coordinate, and the coordinate read back
\* ------------------------------------------------------------------------
\* The six coordinates and the number of values of each
CoordSizes ==
    [twist |-> N_TWIST, flip |-> N_FLIP, udslice |-> N_UDSLICE,
     cperm |-> N_CPERM, ud_edges |-> N_UD_EDGES,
     udslice_sorted |-> N_UDSLICE_SORTED]

\* twist_to_cube(i), flip_to_cube(i), ... by the coordinate's name
CoordToCube(kind, i) ==
    CASE kind = "twist" -> twist_to_cube(i)
      [] kind = "flip" -> flip_to_cube(i)
      [] kind = "udslice" -> udslice_to_cube(i)
      [] kind = "cperm" -> cperm_to_cube(i)
      [] kind = "ud_edges" -> ud_edges_to_cube(i)
      [] kind = "udslice_sorted" -> udslice_sorted_to_cube(i)

\* get_twist(c), get_flip(c), ... by the coordinate's name
CoordGet(kind, c) ==
    CASE kind = "twist" -> get_twist(c)
      [] kind = "flip" -> get_flip(c)
      [] kind = "udslice" -> get_udslice(c)
      [] kind = "cperm" -> get_cperm(c)
      [] kind = "ud_edges" -> get_ud_edges_perm(c)
      [] kind = "udslice_sorted" -> get_udslice_sorted(c)

\* c = <kind>_to_cube(i) followed by get_<kind>(c)
CoordFromIndex(t) ==
    /\ th[t].pc = "idle"
    /\ ~th[t].corrupted
    /\ th[t].out.op = "none"
    /\ \E kind \in DOMAIN CoordSizes : \E i \in 0..(CoordSizes[kind] - 1) :
          LET c == CoordToCube(kind, i)
          IN  Upd(t, [th[t] EXCEPT !.cube = c,
                                   !.out = Outcome("from_index", <<kind, i>>,
                                                   CoordGet(kind, c))])
    /\ UNCHANGED <<env, now, fields>>

\* Test 7: c = CubieCube() followed by one coord.get_<kind>(c)
CoordOfSolved(t) ==
    /\ th[t].pc = "idle"
    /\ th[t].out.op = "none"
    /\ \E kind \in DOMAIN CoordSizes :
          Upd(t, [th[t] EXCEPT !.out = Outcome("get", kind,
                                               CoordGet(kind, th[t].cube))])
    /\ UNCHANGED <<env, now, fields>>

NextCoord == \E t \in Threads : CoordFromIndex(t) \/ CoordOfSolved(t)

SpecCoord == Init /\ [][NextCoord]_vars

\* ------------------------------------------------------------------------
\* search.py: the coordinates the search carries from node to node through
\* the move tables, next to the cube the same moves produce
\* ------------------------------------------------------------------------
\* Moves followed in phase 1, and again in phase 2
TableLen == 2

\* _phase1_search: "twist_s[depth + 1] = self.twist_move[twist][m]" and the
\* two lines after it, for one m of range(18)
TableTurn(t) ==
    /\ th[t].pc = "idle"
    /\ ~th[t].corrupted
    /\ th[t].depth < TableLen
    /\ \E m \in 0..17 :
          Upd(t, [th[t] EXCEPT !.cube = apply_move(@, MOVE_CUBES[m]),
                               !.move_str = MOVE_NAMES[m],
                               !.depth = @ + 1,
                               !.twist = twist_move(@, m),
                               !.flip = flip_move(@, m),
                               !.udslice = udslice_move(@, m)])
    /\ UNCHANGED <<env, now, fields>>

\* _phase1_search at "twist == 0 and flip == 0 and udslice == 0", then
\* _start_phase2: the phase 2 coordinates are read from cube2
TableStartPhase2(t) ==
    /\ th[t].pc = "idle"
    /\ ~th[t].corrupted
    /\ th[t].twist = 0 /\ th[t].flip = 0 /\ th[t].udslice = 0
    /\ Upd(t, [th[t] EXCEPT !.pc = "phase2",
                            !.cperm = get_cperm(th[t].cube),
                            !.ud_edges = get_ud_edges_perm(th[t].cube),
                            !.udslice_sorted = get_udslice_sorted(th[t].cube)])
    /\ UNCHANGED <<env, now, fields>>

\* _phase2_search: "cperm_s[depth + 1] = self.cperm_move[cperm][mi]" and the
\* two lines after it, for one (mi, m) of enumerate(PHASE2_MOVES)
TablePhase2Turn(t) ==
    /\ th[t].pc = "phase2"
    /\ th[t].depth2 < TableLen
    /\ \E mi \in 0..(PyLen(PHASE2_MOVES) - 1) :
          LET m == PHASE2_MOVES[mi]
          IN  Upd(t, [th[t] EXCEPT !.cube = apply_move(@, MOVE_CUBES[m]),
                                   !.move_str = MOVE_NAMES[m],
                                   !.depth2 = @ + 1,
                                   !.mi = mi,
                                   !.cperm = cperm_move(@, mi),
                                   !.ud_edges = ud_edges_move(@, mi),
                                   !.udslice_sorted = udslice_sorted_move(@, mi)])
    /\ UNCHANGED <<env, now, fields>>

NextTable ==
    \E t \in Threads : TableTurn(t) \/ TableStartPhase2(t) \/ TablePhase2Turn(t)

SpecTable == Init /\ [][NextTable]_vars

\* ------------------------------------------------------------------------
\* search.py: the heuristic of a node, next to the move sequences that
\* start at the node's cube
\* ------------------------------------------------------------------------
\* Moves followed from a node
PruneLen == 3

\* A node of the search whose cube is th[t].cube: _phase1_prune at its
\* coordinates and, when the three phase 1 coordinates are 0 (the test
\* before _start_phase2), _phase2_prune at the coordinates read from the cube
PruneNode(t) ==
    /\ th[t].pc = "idle"
    /\ ~th[t].corrupted
    /\ LET c      == th[t].cube
           twist  == get_twist(c)
           flip   == get_flip(c)
           udslice == get_udslice(c)
           in_g1  == twist = 0 /\ flip = 0 /\ udslice = 0
           h2     == IF in_g1
                     THEN Val(phase2_prune(get_cperm(c), get_ud_edges_perm(c),
                                           get_udslice_sorted(c)))
                     ELSE PyNone
       IN  Upd(t, [th[t] EXCEPT !.pc = "node",
                                !.start = c,
                                !.twist = twist, !.flip = flip, !.udslice = udslice,
                                !.depth = 0,
                                !.ret2 = TRUE,
                                !.out = Outcome("prune", in_g1,
                                                <<phase1_prune(twist, flip, udslice), h2>>)])
    /\ UNCHANGED <<env, now, fields>>

\* One more move of a sequence that starts at the node: apply_move of
\* MOVE_CUBES[m]; ret2 tells whether every move so far is in PHASE2_MOVES
PruneTurn(t) ==
    /\ th[t].pc = "node"
    /\ th[t].depth < PruneLen
    /\ \E m \in 0..17 :
          Upd(t, [th[t] EXCEPT !.cube = apply_move(@, MOVE_CUBES[m]),
                               !.move_str = MOVE_NAMES[m],
                               !.depth = @ + 1,
                               !.ret2 = @ /\ (\E mi \in 0..(PyLen(PHASE2_MOVES) - 1) :
                                                 PHASE2_MOVES[mi] = m)])
    /\ UNCHANGED <<env, now, fields>>

NextPrune == \E t \in Threads : Scramble(t) \/ PruneNode(t) \/ PruneTurn(t)

SpecPrune == Init /\ [][NextPrune]_vars

\* ------------------------------------------------------------------------
\* solver.py, search.py, move_tables.py, pruning_tables.py: the first
\* _get_solver() of a process, statement by statement
\* ------------------------------------------------------------------------
\* A cache file is "absent", or holds: "partial", nothing whole yet (opened
\* for writing, the dump not finished); "generated", the blob of the
\* generated table; "stale", a blob an earlier version wrote, which
\* unpickles to another table; "corrupt", bytes that do not unpickle.

\* A process in which nothing has been loaded, with the given cache files
EnvFresh(fs) ==
    /\ g_solver = PyNone
    /\ g_tables = [name \in TableNames |-> "absent"]
    /\ files = fs
    /\ hist = [constructed |-> 0,
               generated |-> [name \in TableNames |-> 0],
               initial |-> fs]

\* _get_solver: "if _solver is None:", and on the true branch the call of
\* TwoPhaseSearch()
GetSolver(t) ==
    /\ th[t].pc = "get_solver"
    /\ IF g_solver = PyNone
       THEN /\ Upd(t, [th[t] EXCEPT !.pc = "get_table", !.mi = 0, !.inst = <<>>])
            /\ hist' = [hist EXCEPT !.constructed = @ + 1]
       ELSE /\ Upd(t, [th[t] EXCEPT !.pc = "done", !.result = Return(g_solver)])
            /\ UNCHANGED hist
    /\ UNCHANGED <<now, fields, g_solver, g_tables, files>>

\* TwoPhaseSearch.__init__: the next "self.<table> = get_<table>()", up to
\* the test "if key not in _tables" of the getter
GetTable(t) ==
    /\ th[t].pc = "get_table"
    /\ LET k == th[t].mi
       IN  IF k = PyLen(TABLES)
           THEN Upd(t, [th[t] EXCEPT !.pc = "set_solver"])
           ELSE IF g_tables[TABLES[k]] # "absent"
                THEN Upd(t, [th[t] EXCEPT !.inst = PyAppend(@, g_tables[TABLES[k]]),
                                         !.mi = k + 1])
                ELSE Upd(t, [th[t] EXCEPT !.pc = "exists", !.name = TABLES[k]])
    /\ UNCHANGED <<now, fields, env>>

\* _load_or_generate: "if os.path.exists(path):"
LoadExists(t) ==
    /\ th[t].pc = "exists"
    /\ Upd(t, [th[t] EXCEPT !.pc = IF files[th[t].name] # "absent"
                                   THEN "load" ELSE "generate"])
    /\ UNCHANGED <<now, fields, env>>

\* _load_or_generate: "with open(path, "rb") as f: return pickle.load(f)";
\* bytes that are not a whole blob make pickle.load raise, and nothing on
\* the way to the caller catches it
LoadPickle(t) ==
    /\ th[t].pc = "load"
    /\ LET content == files[th[t].name]
       IN  IF content \in {"generated", "stale"}
           THEN Upd(t, [th[t] EXCEPT !.pc = "store",
                                     !.table = Val(content),
                                     !.out = Outcome("load", th[t].name, content)])
           ELSE \E exc \in {"EOFError", "UnpicklingError"} :
                   Upd(t, [th[t] EXCEPT !.pc = "done",
                                        !.result = Raise(exc, th[t].name),
                                        !.out = Outcome("load", th[t].name, content)])
    /\ UNCHANGED <<now, fields, env>>

\* _load_or_generate: "table = generator()"
LoadGenerate(t) ==
    /\ th[t].pc = "generate"
    /\ Upd(t, [th[t] EXCEPT !.pc = "open", !.table = Val("generated")])
    /\ hist' = [hist EXCEPT !.generated[th[t].name] = @ + 1]
    /\ UNCHANGED <<now, fields, g_solver, g_tables, files>>

\* _load_or_generate: "with open(path, "wb") as f:", which empties the file
LoadOpen(t) ==
    /\ th[t].pc = "open"
    /\ files' = [files EXCEPT ![th[t].name] = "partial"]
    /\ Upd(t, [th[t] EXCEPT !.pc = "dump"])
    /\ UNCHANGED <<now, fields, g_solver, g_tables, hist>>

\* _load_or_generate: "pickle.dump(table, f, ...)" and the end of the with
\* block; "return table"
LoadDump(t) ==
    /\ th[t].pc = "dump"
    /\ files' = [files EXCEPT ![th[t].name] = ValueOf(th[t].table)]
    /\ Upd(t, [th[t] EXCEPT !.pc = "store",
                            !.out = Outcome("dump", th[t].name, ValueOf(th[t].table))])
    /\ UNCHANGED <<now, fields, g_solver, g_tables, hist>>

\* The getter's "_tables[key] = _load_or_generate(...)" and its return into
\* "self.<table> = ..."
StoreTable(t) ==
    /\ th[t].pc = "store"
    /\ g_tables' = [g_tables EXCEPT ![th[t].name] = ValueOf(th[t].table)]
    /\ Upd(t, [th[t] EXCEPT !.pc = "get_table",
                            !.inst = PyAppend(@, ValueOf(th[t].table)),
                            !.mi = @ + 1,
                            !.table = PyNone])
    /\ UNCHANGED <<now, fields, g_solver, files, hist>>

\* _get_solver: "_solver = TwoPhaseSearch()" (the assignment) and
\* "return _solver"; the instance is named after the thread that built it
SetSolver(t) ==
    /\ th[t].pc = "set_solver"
    /\ g_solver' = Val(t)
    /\ Upd(t, [th[t] EXCEPT !.pc = "done", !.result = Return(Val(t))])
    /\ UNCHANGED <<now, fields, g_tables, files, hist>>

NextLoad ==
    \E t \in Threads :
        \/ GetSolver(t) \/ GetTable(t) \/ LoadExists(t) \/ LoadPickle(t)
        \/ LoadGenerate(t) \/ LoadOpen(t) \/ LoadDump(t) \/ StoreTable(t)
        \/ SetSolver(t)

\* One thread calls initialize() in a fresh process whose cache directory
\* is empty or complete, except for one file that is stale or corrupt
InitCache ==
    /\ now = 0
    /\ self_cube = PyUnset
    /\ self_best_solution = PyUnset
    /\ self_phase1_length = PyUnset
    /\ self_timeout = PyUnset
    /\ th = [t \in Threads |-> IF t = 1 THEN Locals("get_solver", Identity)
                                        ELSE Locals("off", Identity)]
    /\ \E d \in TableNames, kind \in {"stale", "corrupt"}, base \in {"absent", "generated"} :
          EnvFresh([name \in TableNames |-> IF name = d THEN kind ELSE base])

SpecCache == InitCache /\ [][NextLoad]_vars

\* main.py starts initialize() on a background thread, and the controller
\* starts solve() on another: both are at _get_solver() in a fresh process
\* whose cache directory is empty or complete
InitPreload ==
    /\ now = 0
    /\ self_cube = PyUnset
    /\ self_best_solution = PyUnset
    /\ self_phase1_length = PyUnset
    /\ self_timeout = PyUnset
    /\ th = [t \in Threads |-> Locals("get_solver", Identity)]
    /\ \E base \in {"absent", "generated"} :
          EnvFresh([name \in TableNames |-> base])

SpecPreload == InitPreload /\ [][NextLoad]_vars

\* ------------------------------------------------------------------------
\* solver.py: scramble(n_moves), one round of its loop at a time
\* ------------------------------------------------------------------------
\* Largest n_moves passed to scramble
ScrambleMoves == 3

\* scramble(n_moves): cube = CubieCube(); moves = []; last_axis = -1
ScrambleBegin(t) ==
    /\ th[t].pc = "idle"
    /\ th[t].out.op = "none"
    /\ \E n_moves \in 0..ScrambleMoves :
          Upd(t, [th[t] EXCEPT !.pc = "scramble",
                               !.cube = Identity,
                               !.names = <<>>,
                               !.m = -1,
                               !.depth = 0,
                               !.out = Outcome("scramble", n_moves, PyNone)])
    /\ UNCHANGED <<env, now, fields>>

\* One round of "for _ in range(n_moves)": the inner loop draws
\* m = random.randint(0, 17) until m // 3 differs from last_axis
ScrambleLoop(t) ==
    /\ th[t].pc = "scramble"
    /\ th[t].depth < th[t].out.arg
    /\ \E m \in 0..17 :
          LET axis == m \div 3
          IN  /\ axis # th[t].m
              /\ Upd(t, [th[t] EXCEPT !.cube = apply_move(@, MOVE_CUBES[m]),
                                      !.names = PyAppend(@, MOVE_NAMES[m]),
                                      !.m = axis,
                                      !.depth = @ + 1])
    /\ UNCHANGED <<env, now, fields>>

\* scramble: "return cube, moves"
ScrambleReturn(t) ==
    /\ th[t].pc = "scramble"
    /\ th[t].depth = th[t].out.arg
    /\ Upd(t, [th[t] EXCEPT !.pc = "done",
                            !.result = Return(<<th[t].cube, th[t].names>>)])
    /\ UNCHANGED <<env, now, fields>>

NextScramble ==
    \E t \in Threads : ScrambleBegin(t) \/ ScrambleLoop(t) \/ ScrambleReturn(t)

SpecScramble == Init /\ [][NextScramble]_vars

\* ------------------------------------------------------------------------
\* Properties
\* ------------------------------------------------------------------------
Done(t) == th[t].pc = "done"

\* The call of thread t has returned a result other than None
NonNull(t) ==
    /\ Done(t)
    /\ th[t].result.kind = "return"
    /\ th[t].result.value # PyNone

\* The moves and the phase1_length of the result of thread t
ResultMoves(t) == ValueOf(th[t].result.value).moves

ResultPhase1Length(t) == ValueOf(th[t].result.value).phase1_length

\* The cube c after the moves named in names[0..n-1], applied in order
ApplyNames(c, names, n) ==
    ApplyMoves(c, [i \in 0..(n - 1) |-> move_map(names[i])], 0)

\* The cube is in G1: no corner twisted, no edge flipped, the four slice
\* edges in the four slice positions
InG1(c) ==
    /\ \A i \in 0..7 : c.co[i] = 0
    /\ \A i \in 0..11 : c.eo[i] = 0
    /\ \A i \in 8..11 : c.ep[i] \in 8..11

\* C1: whenever solve returns a result other than null for a cube reached
\* from the identity by the 18 moves, the returned moves applied in order to
\* that cube give a solved cube.
C1_Soundness ==
    \A t \in Threads :
        NonNull(t) =>
            is_solved(ApplyNames(th[t].cube, ResultMoves(t), PyLen(ResultMoves(t))))

\* A call has returned a solution with moves of both phases, and it solves
\* the cube the call was given.
C1_Witness ==
    \E t \in Threads :
        /\ NonNull(t)
        /\ PyLen(ResultMoves(t)) >= 2
        /\ ResultPhase1Length(t) \in 1..(PyLen(ResultMoves(t)) - 1)
        /\ ~is_solved(th[t].cube)
        /\ is_solved(ApplyNames(th[t].cube, ResultMoves(t), PyLen(ResultMoves(t))))

\* C2: every result other than null has at most max_length moves, for every
\* max_length >= 0.
C2_LengthBound ==
    \A t \in Threads : NonNull(t) => PyLen(ResultMoves(t)) <= th[t].max_length

\* A call has returned a solution of exactly max_length moves, max_length
\* above 1.
C2_Witness ==
    \E t \in Threads :
        /\ NonNull(t)
        /\ th[t].max_length >= 2
        /\ PyLen(ResultMoves(t)) = th[t].max_length

\* The names of the ten phase 2 moves
Phase2Names == {"U", "U2", "U'", "D", "D2", "D'", "R2", "L2", "F2", "B2"}

\* C3: in every result other than null, 0 <= phase1_length <= len(moves),
\* every move from position phase1_length on is one of the ten phase 2
\* moves, and the first phase1_length moves alone bring the cube into G1.
C3_PhaseSplit ==
    \A t \in Threads :
        NonNull(t) =>
            /\ ResultPhase1Length(t) \in 0..PyLen(ResultMoves(t))
            /\ \A i \in ResultPhase1Length(t)..(PyLen(ResultMoves(t)) - 1) :
                   ResultMoves(t)[i] \in Phase2Names
            /\ InG1(ApplyNames(th[t].cube, ResultMoves(t), ResultPhase1Length(t)))

\* A call has returned a solution for a cube outside G1 whose phase 1 part
\* and whose phase 2 part both have moves.
C3_Witness ==
    \E t \in Threads :
        /\ NonNull(t)
        /\ ~InG1(th[t].cube)
        /\ ResultPhase1Length(t) >= 1
        /\ ResultPhase1Length(t) < PyLen(ResultMoves(t))
        /\ ResultMoves(t)[ResultPhase1Length(t)] \in Phase2Names

\* The facelet string UUUUUUUUURRRRRRRRRFFFFFFFFFDDDDDDDDDLLLLLLLLLBBBBBBBBB
SolvedFacelets ==
    [x \in 0..53 |-> <<"U", "R", "F", "D", "L", "B">>[(x \div 9) + 1]]

\* The result {moves: [], phase1_length: 0}
EmptySolution == Return(Val([moves |-> <<>>, phase1_length |-> 0]))

\* C4: solve on a solved cube, given as the identity cube or as the solved
\* facelet string, decodes to the identity and returns {moves: [],
\* phase1_length: 0} without running any search, for every max_length and
\* timeout: the step that decodes the solved string hands the identity to
\* the solver with the call's max_length and timeout, and the solver's step
\* on the identity ends the call with that result, no search entered and the
\* solver's fields untouched.
C4_SolvedInput ==
    [][\A t \in Threads :
          /\ (th[t].pc = "decode" /\ th'[t] # th[t] /\ th[t].input = SolvedFacelets)
                => /\ th'[t].pc = "solve"
                   /\ th'[t].cube = Identity
                   /\ th'[t].max_length = th[t].max_length
                   /\ th'[t].timeout_seconds = th[t].timeout_seconds
          /\ (th[t].pc = "solve" /\ th'[t] # th[t] /\ th[t].cube = Identity)
                => /\ th'[t].pc = "done"
                   /\ th'[t].result = EmptySolution
                   /\ ~th'[t].searched
                   /\ fields' = fields]_vars

\* A call on the identity, with max_length 0 and timeout 0, has returned
\* {moves: [], phase1_length: 0} and no search was entered.
C4_Witness ==
    \E t \in Threads :
        /\ Done(t)
        /\ th[t].cube = Identity
        /\ th[t].max_length = 0
        /\ th[t].timeout_seconds = 0
        /\ th[t].result = EmptySolution
        /\ ~th[t].searched

\* l is a permutation of 0..n-1
IsPermutation(l, n) ==
    /\ DOMAIN l = 0..(n - 1)
    /\ \A v \in 0..(n - 1) : \E i \in DOMAIN l : l[i] = v

\* The parity of a permutation, by its number of inversions
InversionParity(l) ==
    Cardinality({p \in (DOMAIN l) \X (DOMAIN l) : p[1] < p[2] /\ l[p[1]] > l[p[2]]}) % 2

\* The first of the four invariants of a cube state that c violates, by the
\* message that names it; "" when c violates none
ViolatedInvariant(c) ==
    IF ~IsPermutation(c.cp, 8) THEN "Invalid corner permutation"
    ELSE IF ~IsPermutation(c.ep, 12) THEN "Invalid edge permutation"
    ELSE IF Sum(c.co) % 3 # 0 THEN "Corner orientation sum must be divisible by 3"
    ELSE IF Sum(c.eo) % 2 # 0 THEN "Edge orientation sum must be divisible by 2"
    ELSE IF InversionParity(c.cp) # InversionParity(c.ep)
         THEN "Corner and edge permutation parities must match"
    ELSE ""

\* C5: for every cube state that violates one of the four invariants, the
\* solver's step on it ends the call with the invalid-cube error (a
\* ValueError "Invalid cube state: ...") that names the violated invariant,
\* enters no search, and leaves _cube, _best_solution, _phase1_length and
\* the input cube as they were.
C5_InvalidRejected ==
    [][\A t \in Threads :
          (th[t].pc = "solve" /\ th'[t] # th[t] /\ ViolatedInvariant(th[t].cube) # "")
             => /\ th'[t].pc = "done"
                /\ th'[t].result =
                      Raise("ValueError",
                            <<"Invalid cube state: ", ViolatedInvariant(th[t].cube)>>)
                /\ ~th'[t].searched
                /\ self_cube' = self_cube
                /\ self_best_solution' = self_best_solution
                /\ self_phase1_length' = self_phase1_length
                /\ th'[t].cube = th[t].cube]_vars

\* A call on a cube whose corner and edge parities differ has ended with the
\* error that names the parity invariant.
C5_Witness ==
    \E t \in Threads :
        /\ Done(t)
        /\ ViolatedInvariant(th[t].cube) = "Corner and edge permutation parities must match"
        /\ th[t].result =
              Raise("ValueError",
                    <<"Invalid cube state: ", "Corner and edge permutation parities must match">>)
        /\ ~th[t].searched
        /\ self_cube = PyUnset

\* C6: once a deadline check of a call has found the deadline passed, with
\* no solution recorded, the recursion only unwinds (no frame is entered, no
\* move is tried, no depth is started) and the call returns null; a call
\* that entered the search never ends with an error, and a move list it
\* returns solves its cube.
C6_Timeout ==
    /\ [](\A t \in Threads :
            /\ th[t].timed_out => self_best_solution = PyNone
            /\ (Done(t) /\ th[t].timed_out) => th[t].result = Return(PyNone)
            /\ (Done(t) /\ th[t].searched) =>
                  /\ th[t].result.kind = "return"
                  /\ NonNull(t) =>
                        is_solved(ApplyNames(th[t].cube, ResultMoves(t),
                                             PyLen(ResultMoves(t)))))
    /\ [][\A t \in Threads :
            (th[t].timed_out /\ th'[t] # th[t]) =>
                /\ th'[t].pc \in {"p1_ret", "p2_ret", "fin_check", "done"}
                /\ th'[t].pc # "done" =>
                      /\ th'[t].moves = th[t].moves
                      /\ th'[t].moves2 = th[t].moves2
                      /\ th'[t].depth <= th[t].depth
                      /\ th'[t].depth2 <= th[t].depth2
                      /\ th'[t].phase1_depth = th[t].phase1_depth
                      /\ th'[t].phase2_depth = th[t].phase2_depth]_vars

\* A call with timeout 0 that entered the search and whose deadline check
\* fired has returned null.
C6_Witness ==
    \E t \in Threads :
        /\ Done(t)
        /\ th[t].timed_out
        /\ th[t].searched
        /\ th[t].timeout_seconds = 0
        /\ th[t].result = Return(PyNone)

\* C7: when two calls of solve run at once on different threads with
\* different valid cubes, each call that returns a result other than null
\* returns moves that solve the cube that call was given, with a
\* phase1_length that splits those moves for that cube (the first
\* phase1_length of them bring it into G1).
C7_IndependentCalls ==
    \A t \in Threads :
        NonNull(t) =>
            /\ is_solved(ApplyNames(th[t].cube, ResultMoves(t), PyLen(ResultMoves(t))))
            /\ ResultPhase1Length(t) \in 0..PyLen(ResultMoves(t))
            /\ InG1(ApplyNames(th[t].cube, ResultMoves(t), ResultPhase1Length(t)))

\* The face of a move name, U R F D L B = 0..5, and its axis as the claim
\* counts it: U/D = 0, R/L = 1, F/B = 2
FaceOf(name) == move_map(name) \div 3

AxisOf(name) == FaceOf(name) % 3

\* C9 as stated: no returned solution has two consecutive moves on the same
\* axis (U/D, R/L, F/B).
C9_NoSameAxis ==
    \A t \in Threads :
        NonNull(t) =>
            \A i \in 1..(PyLen(ResultMoves(t)) - 1) :
                AxisOf(ResultMoves(t)[i - 1]) # AxisOf(ResultMoves(t)[i])

\* The pair of consecutive moves last, m (indices of the 18 moves) that the
\* filter lets through: not on the same face, and not a move on U, R or F
\* right after a move on the opposite face D, L or B
PairPlayed(last, m) ==
    /\ last \div 3 # m \div 3
    /\ last \div 3 # (m \div 3) + 3

\* The moves of the two recursions of thread t, as far as they are tried
Phase1Tried(t) == Prefix(th[t].moves, th[t].depth)

Phase2Tried(t) ==
    Concat(th[t].phase1_moves,
           [i \in 0..(th[t].depth2 - 1) |-> PHASE2_MOVES[th[t].moves2[i]]])

\* C9, amended: the filter rejects every move on the same face as the last
\* move and, of two moves on opposite faces, only the order D-U, L-R, B-F
\* (the face with the larger index first); the order U-D, R-L, F-B passes.
\* So in both phases no two consecutive moves on the same face are ever
\* played, nor a move on U, R or F right after a move on D, L or B of the
\* same axis, across the phase boundary too, and no returned solution
\* contains such a pair.
C9_SameFaceRejected ==
    \A t \in Threads :
        /\ th[t].pc \in {"p1_enter", "p1_loop", "p1_ret", "start_phase2"} =>
              \A i \in 1..(th[t].depth - 1) :
                  PairPlayed(Phase1Tried(t)[i - 1], Phase1Tried(t)[i])
        /\ th[t].pc \in {"p2_enter", "p2_loop", "p2_ret", "p2_set_best", "p2_set_len"} =>
              \A i \in 1..(PyLen(Phase2Tried(t)) - 1) :
                  PairPlayed(Phase2Tried(t)[i - 1], Phase2Tried(t)[i])
        /\ NonNull(t) =>
              \A i \in 1..(PyLen(ResultMoves(t)) - 1) :
                  PairPlayed(move_map(ResultMoves(t)[i - 1]), move_map(ResultMoves(t)[i]))

\* A call has returned a solution in which a move on one face is followed by
\* a move on the opposite face.
C9_Witness ==
    \E t \in Threads :
        /\ NonNull(t)
        /\ \E i \in 1..(PyLen(ResultMoves(t)) - 1) :
              FaceOf(ResultMoves(t)[i]) = FaceOf(ResultMoves(t)[i - 1]) + 3

\* The name of the last move the caller applied, as a move cube
LastMoveCube(t) == MOVE_CUBES[move_map(th'[t].move_str)]

\* C10: apply_move(M) on a cube S replaces S by S' with
\* S'.cp[i] = S.cp[M.cp[i]], S'.co[i] = (S.co[M.cp[i]] + M.co[i]) mod 3,
\* S'.ep[i] = S.ep[M.ep[i]], S'.eo[i] = (S.eo[M.ep[i]] + M.eo[i]) mod 2 for
\* every i, and A.multiply(B) returns the cube that applying B to a copy of
\* A gives, and leaves A unchanged (B, a move cube, is never written).
C10_Composition ==
    [][\A t \in Threads :
          /\ (th'[t].n_scramble = th[t].n_scramble + 1) =>
                LET S  == th[t].cube
                    S2 == th'[t].cube
                    M  == LastMoveCube(t)
                IN  /\ \A i \in 0..7 :
                          /\ S2.cp[i] = S.cp[M.cp[i]]
                          /\ S2.co[i] = (S.co[M.cp[i]] + M.co[i]) % 3
                    /\ \A i \in 0..11 :
                          /\ S2.ep[i] = S.ep[M.ep[i]]
                          /\ S2.eo[i] = (S.eo[M.ep[i]] + M.eo[i]) % 2
                    /\ DOMAIN S2.cp = 0..7 /\ DOMAIN S2.co = 0..7
                    /\ DOMAIN S2.ep = 0..11 /\ DOMAIN S2.eo = 0..11
          /\ (th'[t].product # th[t].product) =>
                LET A == th[t].cube
                    B == MOVE_CUBES[th'[t].product[1]]
                IN  /\ th'[t].product[2] = apply_move(copy(A), B)
                    /\ \A i \in 0..7 :
                          /\ th'[t].product[2].cp[i] = A.cp[B.cp[i]]
                          /\ th'[t].product[2].co[i] = (A.co[B.cp[i]] + B.co[i]) % 3
                    /\ \A i \in 0..11 :
                          /\ th'[t].product[2].ep[i] = A.ep[B.ep[i]]
                          /\ th'[t].product[2].eo[i] = (A.eo[B.ep[i]] + B.eo[i]) % 2
                    /\ th'[t].cube = A]_vars

\* A caller has applied two moves, the last one a quarter turn of R (which
\* twists corners and moves edges), and has multiplied the cube it got by F.
C10_Witness ==
    \E t \in Threads :
        /\ th[t].n_scramble = 2
        /\ th[t].move_str = "R"
        /\ th[t].product # <<>>
        /\ th[t].product[1] = 6
        /\ th[t].product[2] = multiply(th[t].cube, MOVE_CUBES[6])
        /\ th[t].product[2] # th[t].cube

\* The names X, X2, X' of the 18 moves and the inverse the claim gives each:
\* X <-> X', X2 <-> X2
InverseName(name) ==
    LET i == MOVE_MAP(name)
    IN  MOVE_NAMES[CASE i % 3 = 0 -> i + 2
                     [] i % 3 = 1 -> i
                     [] OTHER     -> i - 2]

\* C11: for every state S and every sequence s over the 18 moves, applying s
\* and then the reversed sequence of the per-move inverses (X <-> X',
\* X2 <-> X2) returns exactly S: each undo applies the inverse named by the
\* claim and gives back the cube before the move it undoes, so the cube is S
\* again when the whole history is undone (from the identity, the identity);
\* and for each single move M, M.inverse() is the operator named as M's
\* inverse, and M followed by it is the identity.
C11_InverseSequences ==
    /\ [](\A t \in Threads :
            /\ th[t].cube = ApplyNames(th[t].start, th[t].move_history,
                                       PyLen(th[t].move_history))
            /\ (th[t].move_history = <<>>) => th[t].cube = th[t].start
            /\ (th[t].out.op = "inverse" /\ th[t].start = Identity
                   /\ PyLen(th[t].move_history) = 1) =>
                  LET M    == MOVE_CUBES[MOVE_MAP(th[t].move_history[0])]
                      Minv == ValueOf(th[t].out.result.value)
                  IN  /\ th[t].cube = M
                      /\ Minv = MOVE_CUBES[MOVE_MAP(InverseName(th[t].move_history[0]))]
                      /\ apply_move(M, Minv) = Identity
                      /\ multiply(Minv, M) = Identity)
    /\ [][\A t \in Threads :
            (th'[t].n_undo = th[t].n_undo + 1) =>
                LET n    == PyLen(th[t].move_history)
                    last == th[t].move_history[n - 1]
                IN  /\ th'[t].move_history = Prefix(th[t].move_history, n - 1)
                    /\ th'[t].cube =
                          apply_move(th[t].cube, MOVE_CUBES[MOVE_MAP(InverseName(last))])
                    /\ th'[t].cube = ApplyNames(th[t].start, th[t].move_history, n - 1)]_vars

\* A game loaded with a cube other than the solved one has had two moves
\* applied, the first of them F2, and both undone: its cube is the loaded
\* one again.
C11_Witness ==
    \E t \in Threads :
        /\ th[t].start # Identity
        /\ th[t].move_history = <<>>
        /\ th[t].n_undo = GameLen
        /\ th[t].out.op = "undo"
        /\ th[t].out.result = Return(Val("F2"))
        /\ th[t].cube = th[t].start

\* The letter of face f
FaceLetter(f) == List(<<"U", "R", "F", "D", "L", "B">>)[f]

\* C12: for each base operator B (U, R, F, D, L, B) with face index f,
\* MOVE_CUBES[3f] = B, MOVE_CUBES[3f+1] = B.B and MOVE_CUBES[3f+2] = B.B.B,
\* named f, f2, f' in that index order, so that on any state one, two and
\* three applications of the quarter turn give what MOVE_CUBES[3f],
\* MOVE_CUBES[3f+1] and MOVE_CUBES[3f+2] give, and four applications return
\* the state.
C12_OrderFour ==
    [][\A t \in Threads :
          (th'[t].out.op = "turn" /\ th'[t].out # th[t].out /\ th'[t].out.result > 0) =>
              LET f == th'[t].out.arg \div 3
                  k == th'[t].out.result
                  B == BASIC_MOVES[f]
                  S == th[t].start
              IN  /\ th'[t].out.arg = 3 * f
                  /\ th'[t].start = S
                  /\ MOVE_CUBES[3 * f] = B
                  /\ MOVE_CUBES[3 * f + 1] = multiply(B, B)
                  /\ MOVE_CUBES[3 * f + 2] = multiply(multiply(B, B), B)
                  /\ MOVE_NAMES[3 * f] = FaceLetter(f)
                  /\ MOVE_NAMES[3 * f + 1] = FaceLetter(f) \o "2"
                  /\ MOVE_NAMES[3 * f + 2] = FaceLetter(f) \o "'"
                  /\ k \in 1..3 => th'[t].cube = apply_move(S, MOVE_CUBES[3 * f + k - 1])
                  /\ k = 4 => th'[t].cube = S
                  /\ k < 4 => th'[t].cube # S]_vars

\* The quarter turn of L has been applied four times to a cube that two
\* moves had been applied to, and the cube is what it was before the loop.
C12_Witness ==
    \E t \in Threads :
        /\ th[t].n_scramble = 2
        /\ th[t].pc = "idle"
        /\ th[t].out = Outcome("turn", 12, 4)
        /\ th[t].start # Identity
        /\ th[t].cube = th[t].start

\* C13: every state produced by applying moves to the identity satisfies the
\* four invariants (cp a permutation of 0..7 and ep of 0..11, sum(co) mod 3
\* = 0, sum(eo) mod 2 = 0, parity(cp) = parity(ep)) with every co[i] in
\* {0,1,2} and every eo[i] in {0,1}, and validate() returns no error on it.
C13_ReachableValid ==
    \A t \in Threads :
        ~th[t].corrupted =>
            LET c == th[t].cube
            IN  /\ IsPermutation(c.cp, 8)
                /\ IsPermutation(c.ep, 12)
                /\ DOMAIN c.co = 0..7 /\ \A i \in 0..7 : c.co[i] \in {0, 1, 2}
                /\ DOMAIN c.eo = 0..11 /\ \A i \in 0..11 : c.eo[i] \in {0, 1}
                /\ Sum(c.co) % 3 = 0
                /\ Sum(c.eo) % 2 = 0
                /\ InversionParity(c.cp) = InversionParity(c.ep)
                /\ th[t].out.op = "validate" => th[t].out.result = Return(PyNone)

\* validate() has returned None on a cube two moves away from the identity
\* that has twisted corners, flipped edges and odd permutations.
C13_Witness ==
    \E t \in Threads :
        /\ ~th[t].corrupted
        /\ th[t].n_scramble = 2
        /\ th[t].out.op = "validate"
        /\ th[t].out.result = Return(PyNone)
        /\ \E i \in 0..7 : th[t].cube.co[i] # 0
        /\ \E i \in 0..11 : th[t].cube.eo[i] # 0
        /\ InversionParity(th[t].cube.cp) = 1

\* The message validate() gives for a cube with exactly the change kind
ExpectedError(kind) ==
    CASE kind = "swap_corners" -> "Corner and edge permutation parities must match"
      [] kind = "flip_edge" -> "Edge orientation sum must be divisible by 2"
      [] kind \in {"twist_corner", "untwist_corner"} ->
            "Corner orientation sum must be divisible by 3"
      [] kind = "duplicate_corner" -> "Invalid corner permutation"
      [] kind = "duplicate_edge" -> "Invalid edge permutation"

\* C14: validate() reports exactly one reason, the first violated in the
\* order corner permutation, edge permutation, corner orientation sum, edge
\* orientation sum, parity; so on a valid state with two corners swapped it
\* gives the parity error, with one edge flipped the edge orientation sum
\* error, with one corner twisted the corner orientation sum error, and with
\* a corner or an edge duplicated the error of that permutation.
C14_SpecificErrors ==
    \A t \in Threads :
        (th[t].out.op = "validate" /\ th[t].corrupted) =>
            LET c   == th[t].cube
                res == th[t].out.result
            IN  /\ res = IF ViolatedInvariant(c) = "" THEN Return(PyNone)
                         ELSE Return(Val(ViolatedInvariant(c)))
                /\ PyLen(th[t].damage) = 1 =>
                      res = Return(Val(ExpectedError(th[t].damage[0])))

\* validate() on a cube with one edge flipped and a corner duplicated has
\* given the corner permutation error, the first of the two in the order.
C14_Witness ==
    \E t \in Threads :
        /\ th[t].n_scramble = 2
        /\ th[t].damage = List(<<"flip_edge", "duplicate_corner">>)
        /\ Sum(th[t].cube.eo) % 2 = 1
        /\ th[t].out.op = "validate"
        /\ th[t].out.result = Return(Val("Invalid corner permutation"))

\* C15: for every state S reachable from the identity by moves,
\* from_facelet_string(S.to_facelet_string()) returns a state with the same
\* cp, co, ep and eo as S, and the facelet string has length 54 over the
\* alphabet URFDLB with the six centre characters (index 4 of each face)
\* equal to their face letter.
C15_FaceletRoundTrip ==
    \A t \in Threads :
        /\ th[t].out.op = "to_facelet_string" =>
              LET s == ValueOf(th[t].out.result.value)
              IN  /\ th[t].out.result.kind = "return"
                  /\ DOMAIN s = 0..53
                  /\ \A x \in 0..53 : s[x] \in {"U", "R", "F", "D", "L", "B"}
                  /\ \A f \in 0..5 : s[9 * f + 4] = FaceLetter(f)
        /\ (th[t].out.op = "from_facelet_string"
               /\ th[t].out.arg = to_facelet_string(th[t].cube)) =>
              /\ th[t].out.result.kind = "return"
              /\ ValueOf(th[t].out.result.value).cp = th[t].cube.cp
              /\ ValueOf(th[t].out.result.value).co = th[t].cube.co
              /\ ValueOf(th[t].out.result.value).ep = th[t].cube.ep
              /\ ValueOf(th[t].out.result.value).eo = th[t].cube.eo

\* The facelet string of a cube two moves away from the identity, with
\* twisted corners and flipped edges, has been decoded to that cube.
C15_Witness ==
    \E t \in Threads :
        /\ th[t].n_scramble = 2
        /\ \E i \in 0..7 : th[t].cube.co[i] # 0
        /\ \E i \in 0..11 : th[t].cube.eo[i] # 0
        /\ th[t].out.op = "from_facelet_string"
        /\ th[t].out.arg = to_facelet_string(th[t].cube)
        /\ th[t].out.result = Return(Val(th[t].cube))

\* The six colour letters
Letters == {"U", "R", "F", "D", "L", "B"}

\* The colours at the corner position i of the string s are those of some
\* corner cubie, in one of its three rotations
CornerIdentifiable(s, i) ==
    \E j \in 0..7, r \in 0..2 :
        \A k \in 0..2 : s[CORNER_FACELETS[i][k]] = FaceLetter(CORNER_COLORS[j][(k + r) % 3])

\* The colours at the edge position i of the string s are those of some
\* edge cubie, one way round or the other
EdgeIdentifiable(s, i) ==
    \E j \in 0..11, r \in 0..1 :
        \A k \in 0..1 : s[EDGE_FACELETS[i][k]] = FaceLetter(EDGE_COLORS[j][(k + r) % 2])

\* The string has a length other than 54, a character outside URFDLB, a
\* letter that does not occur exactly nine times, or a position whose
\* colours match no cubie
InvalidFacelets(s) ==
    IF PyLen(s) # 54 THEN TRUE
    ELSE IF \E x \in 0..53 : s[x] \notin Letters THEN TRUE
    ELSE \/ \E ch \in Letters : Cardinality({x \in 0..53 : s[x] = ch}) # 9
         \/ \E i \in 0..7 : ~CornerIdentifiable(s, i)
         \/ \E i \in 0..11 : ~EdgeIdentifiable(s, i)

\* C16: from_facelet_string fails with the invalid-facelet error (a
\* ValueError) and returns no cube for every string that has a length other
\* than 54, contains a character outside URFDLB, has wrong colour counts or
\* has a corner or edge position whose colours match no cubie; it returns a
\* cube only for a string none of these is true of.
C16_DecodeErrors ==
    \A t \in Threads :
        th[t].out.op = "from_facelet_string" =>
            /\ InvalidFacelets(th[t].out.arg) =>
                  /\ th[t].out.result.kind = "raise"
                  /\ th[t].out.result.exc = "ValueError"
            /\ th[t].out.result.kind = "return" => ~InvalidFacelets(th[t].out.arg)

\* The caller of thread t has applied the move named name, and no other, to
\* the identity
AppliedOnly(t, name) == th[t].n_scramble = 1 /\ th[t].move_str = name

\* Reading X -> Y as "the cubie at position X moves to position Y": in the
\* cube c, got from the identity, the corners cycle cyc[0] -> cyc[1] ->
\* cyc[2] -> cyc[3] -> cyc[0]
CornersCycle(c, cyc) == \A k \in 0..3 : c.cp[cyc[(k + 1) % 4]] = cyc[k]

\* The same for the edges
EdgesCycle(c, cyc) == \A k \in 0..3 : c.ep[cyc[(k + 1) % 4]] = cyc[k]

\* Every corner position outside corners and every edge position outside
\* edges holds its own cubie, with orientation 0
OthersInPlace(c, corners, edges) ==
    /\ \A p \in (0..7) \ corners : c.cp[p] = p /\ c.co[p] = 0
    /\ \A q \in (0..11) \ edges : c.ep[q] = q /\ c.eo[q] = 0

\* The reading: the stated U cycles UBR -> URF -> UFL -> ULB and
\* UB -> UR -> UF -> UL hold for the U operator
ReadingOfU(c) ==
    /\ CornersCycle(c, List(<<UBR, URF, UFL, ULB>>))
    /\ EdgesCycle(c, List(<<UB, UR, UF, UL>>))
    /\ \A p \in 0..7 : c.co[p] = 0
    /\ \A q \in 0..11 : c.eo[q] = 0
    /\ OthersInPlace(c, {UBR, URF, UFL, ULB}, {UB, UR, UF, UL})

C18_BaseD ==
    \A t \in Threads :
        AppliedOnly(t, "D") =>
            LET c == th[t].cube
            IN  /\ CornersCycle(c, List(<<DFR, DRB, DBL, DLF>>))
                /\ EdgesCycle(c, List(<<DR, DF, DL, DB>>))
                /\ \A p \in 0..7 : c.co[p] = 0
                /\ \A q \in 0..11 : c.eo[q] = 0
                /\ OthersInPlace(c, {DFR, DRB, DBL, DLF}, {DR, DF, DL, DB})

\* C18, amended: under the same reading as for U, applying D to the
\* identity cycles the corners DFR -> DRB -> DBL -> DLF -> DFR and the edges
\* the same way round as the corners, DF -> DR -> DB -> DL -> DF, changes no
\* orientation, and leaves every other cubie in place.
C18_BaseDAsCoded ==
    \A t \in Threads :
        AppliedOnly(t, "D") =>
            LET c == th[t].cube
            IN  /\ CornersCycle(c, List(<<DFR, DRB, DBL, DLF>>))
                /\ EdgesCycle(c, List(<<DF, DR, DB, DL>>))
                /\ \A p \in 0..7 : c.co[p] = 0
                /\ \A q \in 0..11 : c.eo[q] = 0
                /\ OthersInPlace(c, {DFR, DRB, DBL, DLF}, {DR, DF, DL, DB})

\* D has been applied to the identity: the corner cubie DFR is at DRB and
\* the edge cubie DF is at DR.
C18_Witness ==
    \E t \in Threads :
        /\ AppliedOnly(t, "D")
        /\ th[t].cube = MOVE_CUBES[9]
        /\ th[t].cube.cp[DRB] = DFR
        /\ th[t].cube.ep[DR] = DF

\* C19: applying F to the identity cycles the corners
\* UFL -> URF -> DFR -> DLF -> UFL leaving co = 1, 2, 1, 2 at the positions
\* URF, UFL, DLF, DFR, cycles the edges UF -> FR -> DF -> FL -> UF with
\* eo = 1 at exactly those four edge positions, and leaves every other
\* cubie in place with orientation 0.
C19_BaseF ==
    \A t \in Threads :
        AppliedOnly(t, "F") =>
            LET c == th[t].cube
            IN  /\ CornersCycle(c, List(<<UFL, URF, DFR, DLF>>))
                /\ c.co[URF] = 1 /\ c.co[UFL] = 2 /\ c.co[DLF] = 1 /\ c.co[DFR] = 2
                /\ EdgesCycle(c, List(<<UF, FR, DF, FL>>))
                /\ \A q \in 0..11 : c.eo[q] = (IF q \in {UF, FR, DF, FL} THEN 1 ELSE 0)
                /\ OthersInPlace(c, {UFL, URF, DFR, DLF}, {UF, FR, DF, FL})

\* F has been applied to the identity: the corner cubie UFL is at URF,
\* twisted, and the edge cubie UF is at FR, flipped.
C19_Witness ==
    \E t \in Threads :
        /\ AppliedOnly(t, "F")
        /\ th[t].cube = MOVE_CUBES[6]
        /\ th[t].cube.cp[URF] = UFL /\ th[t].cube.co[URF] = 1
        /\ th[t].cube.ep[FR] = UF /\ th[t].cube.eo[FR] = 1

\* ------------------------------------------------------------------------
\* C20: G1 is closed under the phase 2 moves. Whenever one of the ten
\* operators MOVE_CUBES[PHASE2_MOVES[mi]] is applied to a cube with every
\* co 0, every eo 0 and the edges 8..11 in the positions 8..11, the result
\* has the same three properties, and its twist, flip and udslice are 0.
\* ------------------------------------------------------------------------
C20_G1Closed ==
    \A t \in Threads :
        (th[t].out.op = "phase2_move" /\ InG1(th[t].out.result))
        => /\ InG1(th[t].cube)
           /\ get_twist(th[t].cube) = 0
           /\ get_flip(th[t].cube) = 0
           /\ get_udslice(th[t].cube) = 0

\* The quarter turn D (mi = 3) was applied to a generator's cube that is
\* not the solved one, after two other phase 2 moves, and the cube is in G1
C20_Witness ==
    \E t \in Threads :
        /\ th[t].out.op = "phase2_move"
        /\ th[t].out.arg = 3
        /\ th[t].n_scramble = G1Len
        /\ th[t].start # Identity
        /\ InG1(th[t].out.result)
        /\ th[t].out.result # Identity
        /\ th[t].cube = apply_move(th[t].out.result, MOVE_CUBES[9])
        /\ InG1(th[t].cube)

\* ------------------------------------------------------------------------
\* C21: coordinate round trip. For each of the six coordinates and every
\* index i of its range, the coordinate read from the cube made from i is
\* i, and the identity cube has all six coordinates equal to 0.
\* ------------------------------------------------------------------------
C21_CoordRoundTrip ==
    \A t \in Threads :
        /\ th[t].out.op = "from_index" =>
              /\ th[t].out.result = th[t].out.arg[2]
              /\ CoordGet(th[t].out.arg[1], th[t].cube) = th[t].out.arg[2]
        /\ th[t].out.op = "get" =>
              /\ th[t].cube = Identity
              /\ th[t].out.result = 0

\* The largest udslice index was made into a cube, which has the four
\* slice edges at positions 0..3, and read back
C21_Witness ==
    \E t \in Threads :
        /\ th[t].out.op = "from_index"
        /\ th[t].out.arg = <<"udslice", N_UDSLICE - 1>>
        /\ \A i \in 0..3 : th[t].cube.ep[i] >= 8
        /\ th[t].out.result = N_UDSLICE - 1

\* ------------------------------------------------------------------------
\* C22: the move tables track the cube. For a cube reached from the identity
\* by the 18 moves, the twist, flip and udslice obtained move after move
\* through twist_move, flip_move and udslice_move are the coordinates of the
\* cube; for a cube in G1 followed through phase 2 moves, the cperm,
\* ud_edges and udslice_sorted obtained through the three phase 2 tables
\* are the coordinates of the cube; and every entry read lies in its
\* coordinate's range.
\* ------------------------------------------------------------------------
C22_TablesTrackCube ==
    \A t \in Threads :
        /\ th[t].pc = "idle" =>
              /\ th[t].twist = get_twist(th[t].cube)
              /\ th[t].flip = get_flip(th[t].cube)
              /\ th[t].udslice = get_udslice(th[t].cube)
              /\ th[t].twist \in 0..(N_TWIST - 1)
              /\ th[t].flip \in 0..(N_FLIP - 1)
              /\ th[t].udslice \in 0..(N_UDSLICE - 1)
        /\ th[t].pc = "phase2" =>
              /\ InG1(th[t].cube)
              /\ th[t].cperm = get_cperm(th[t].cube)
              /\ th[t].ud_edges = get_ud_edges_perm(th[t].cube)
              /\ th[t].udslice_sorted = get_udslice_sorted(th[t].cube)
              /\ th[t].cperm \in 0..(N_CPERM - 1)
              /\ th[t].ud_edges \in 0..(N_UD_EDGES - 1)
              /\ th[t].udslice_sorted \in 0..(N_UDSLICE_SORTED - 1)

\* Two moves of the 18 led into G1 away from the identity, and two phase 2
\* moves were followed from there, the last of them R2, with all three
\* phase 2 coordinates away from 0
C22_Witness ==
    \E t \in Threads :
        /\ th[t].pc = "phase2"
        /\ th[t].depth = TableLen
        /\ th[t].depth2 = TableLen
        /\ th[t].move_str = "R2"
        /\ th[t].cperm # 0 /\ th[t].ud_edges # 0 /\ th[t].udslice_sorted # 0
        /\ th[t].cperm = get_cperm(th[t].cube)

\* ------------------------------------------------------------------------
\* C24: admissible heuristic. For a cube S reached from the identity and a
\* sequence of k moves of the 18 that brings S into G1, _phase1_prune at S's
\* coordinates is at most k; for S in G1 and a sequence of k phase 2 moves
\* that solves S, _phase2_prune at S's coordinates is at most k.
\* ------------------------------------------------------------------------
C24_Admissible ==
    \A t \in Threads :
        th[t].pc = "node" =>
            /\ InG1(th[t].cube) => th[t].out.result[1] <= th[t].depth
            /\ (InG1(th[t].start) /\ th[t].ret2 /\ is_solved(th[t].cube))
                  => /\ th[t].out.arg
                     /\ ValueOf(th[t].out.result[2]) <= th[t].depth

\* A cube two moves from the identity and outside G1 was brought into G1
\* by two moves, and the heuristic at the cube is 2
C24_Witness ==
    \E t \in Threads :
        /\ th[t].pc = "node"
        /\ th[t].n_scramble = ScrambleLen
        /\ th[t].depth = 2
        /\ ~InG1(th[t].start)
        /\ InG1(th[t].cube)
        /\ th[t].out.result[1] = 2

\* ------------------------------------------------------------------------
\* C25: corrupt cache recovery. When the cache file of a table exists but
\* is stale or unreadable, _load_or_generate treats it as a miss: no error
\* reaches the caller, the table it returns is the generated one, and once
\* the call has returned the generator has run for that table and the file
\* holds the generated table.
\* ------------------------------------------------------------------------
C25_CorruptCacheRecovery ==
    \A t \in Threads :
        /\ th[t].result.kind # "raise"
        /\ \A k \in DOMAIN th[t].inst : th[t].inst[k] = "generated"
        /\ \A k \in DOMAIN th[t].inst :
              hist.initial[TABLES[k]] \in {"stale", "corrupt"}
              => /\ hist.generated[TABLES[k]] = 1
                 /\ files[TABLES[k]] = "generated"

\* ------------------------------------------------------------------------
\* C30: initialize once under threads. With initialize() on one thread and
\* solve() on another, at most one TwoPhaseSearch is constructed, each
\* table's generator runs at most once, and no thread loads a cache file
\* that another thread is still writing.
\* ------------------------------------------------------------------------
C30_InitializeOnce ==
    /\ hist.constructed <= 1
    /\ \A name \in TableNames : hist.generated[name] <= 1
    /\ \A t \in Threads :
          th[t].out.op = "load" => th[t].out.result # "partial"

\* ------------------------------------------------------------------------
\* C26: scramble(n_moves) returns exactly n_moves names of the 18 moves,
\* the returned cube is the identity with those moves applied in order, and
\* no two consecutive moves share a face axis (U/D, R/L, F/B).
\* ------------------------------------------------------------------------
C26_Scramble ==
    \A t \in Threads :
        (Done(t) /\ th[t].out.op = "scramble") =>
            LET cube  == th[t].result.value[1]
                moves == th[t].result.value[2]
                n     == th[t].out.arg
            IN  /\ PyLen(moves) = n
                /\ \A i \in 0..(n - 1) : \E m \in 0..17 : moves[i] = MOVE_NAMES[m]
                /\ cube = ApplyNames(Identity, moves, n)
                /\ \A i \in 0..(n - 2) : AxisOf(moves[i]) # AxisOf(moves[i + 1])

\* ------------------------------------------------------------------------
\* C27: canonical ordering across the whole solution. In every returned move
\* list, the pair of the last phase 1 move and the first phase 2 move
\* included, no two consecutive moves turn the same face, and two
\* consecutive moves on opposite faces come in the order U before D,
\* R before L, F before B.
\* ------------------------------------------------------------------------
C27_CanonicalOrder ==
    \A t \in Threads :
        NonNull(t) =>
            \A i \in 1..(PyLen(ResultMoves(t)) - 1) :
                LET before == FaceOf(ResultMoves(t)[i - 1])
                    after  == FaceOf(ResultMoves(t)[i])
                IN  /\ before # after
                    /\ AxisOf(ResultMoves(t)[i - 1]) = AxisOf(ResultMoves(t)[i])
                          => (before \in {U_FACE, R_FACE, F_FACE}
                              /\ after \in {D_FACE, L_FACE, B_FACE})

\* A call has returned a solution whose last phase 1 move is on R and whose
\* first phase 2 move is on L
C27_Witness ==
    \E t \in Threads :
        /\ NonNull(t)
        /\ LET p == ResultPhase1Length(t)
           IN  /\ p >= 1
               /\ PyLen(ResultMoves(t)) > p
               /\ FaceOf(ResultMoves(t)[p - 1]) = R_FACE
               /\ FaceOf(ResultMoves(t)[p]) = L_FACE

\* A sequence of at most n phase 2 moves that passes the filter, the move
\* before it being last (-1 when there is none), solves the cube c
RECURSIVE Completable(_, _, _)
Completable(c, last, n) ==
    \/ is_solved(c)
    \/ /\ n > 0
       /\ \E mi \in 0..(PyLen(PHASE2_MOVES) - 1) :
             /\ moves_compatible(last, PHASE2_MOVES[mi])
             /\ Completable(apply_move(c, MOVE_CUBES[PHASE2_MOVES[mi]]),
                            PHASE2_MOVES[mi], n - 1)

\* A sequence of exactly d moves that passes the filter after last takes c
\* into G1, whether or not (completed) a phase 2 sequence of at most n moves
\* that passes the filter solves the cube from there
RECURSIVE Phase1Prefix(_, _, _, _, _)
Phase1Prefix(c, last, d, n, completed) ==
    IF d = 0
    THEN InG1(c) /\ (completed <=> Completable(c, last, n))
    ELSE \E m \in 0..17 :
            /\ moves_compatible(last, m)
            /\ Phase1Prefix(apply_move(c, MOVE_CUBES[m]), m, d - 1, n, completed)

C29_FaceletsAgreeWithTurns ==
    \A t \in Threads :
        (/\ th[t].n_scramble = 1
         /\ th[t].out.op = "to_facelet_string"
         /\ th[t].out.result = Return(Val(to_facelet_string(th[t].cube))))
        => LET s        == ValueOf(th[t].out.result.value)
               face     == FaceOf(th[t].move_str)
               opposite == OPPOSITE[face]
           IN  \A j \in 0..8 :
                  /\ s[9 * face + j] = COLOR_CHARS[face]
                  /\ s[9 * opposite + j] = COLOR_CHARS[opposite]

=============================================================================
